---- MODULE Spec2Model ----
(***************************************************************************)
(* NexusEngine core: the LockFreeQueue ring buffer (lock_free_queue.hpp    *)
(* and its implementation), the CoreEngine lifecycle (core_engine.hpp and  *)
(* its implementation), the ThreadPool task submission (thread_pool.hpp)   *)
(* and the MetricsCollector (metrics_collector.hpp and its                 *)
(* implementation), as state machines at the granularity of one atomic     *)
(* load / store / fetch-add / compare-exchange per step.  Every access to  *)
(* head_, tail_, state_ and the metrics counters is an atomic operation of *)
(* the source, and the threads' operations are interleaved in one total    *)
(* order.                                                                  *)
(***************************************************************************)
EXTENDS Integers, Sequences, FiniteSets, Bags, TLC

(***************************************************************************)
(* Bounds of the model.                                                    *)
(***************************************************************************)
\* queue capacities handed to the LockFreeQueue constructor: 1..MaxCapacity
MaxCapacity == 4
\* number of enqueue calls made (each call carries a fresh value 1..MaxVal)
MaxVal == 4
\* with several producers and consumers: enqueue calls made, dequeues returned
MaxRaceCalls == 2
MaxRaceDequeues == 3

(***************************************************************************)
(* Threads using the queue.                                                *)
(***************************************************************************)
Producers == {"p1", "p2"}
Consumers == {"c1", "c2"}
Procs == Producers \cup Consumers
\* single-producer / single-consumer use
SPSCProducers == {"p1"}
SPSCConsumers == {"c1"}

VARIABLES
  \* ---- LockFreeQueue<T> members
  capacity_,   \* uint32_t capacity_
  mask_,       \* uint32_t mask_
  buffer_,     \* Node buffer_[capacity]: index -> data (0: default-constructed T)
  head_,       \* std::atomic<uint32_t> head_
  tail_,       \* std::atomic<uint32_t> tail_
  \* ---- threads inside enqueue / dequeue
  qpc,         \* thread -> position in enqueue / dequeue
  qloc,        \* thread -> locals of the call (tail, next_tail, head, value) and its result
  \* ---- observations of the calls
  calls,       \* number of enqueue calls made so far (the value of the next call is calls + 1)
  enqueued,    \* values whose enqueue returned true, in order of return
  dequeued,    \* values returned by dequeues that returned true, in order of return
  room,        \* a dequeue has returned true since the last return of an enqueue
  armed,       \* producer -> its current enqueue call began while room held
  cleared,     \* the thread calling clear(): its position, and what was observed of it
  \* ---- CoreEngine members
  state_,            \* std::atomic<EngineState> state_
  config_,           \* EngineConfig config_ (num_threads, queue_capacity)
  worker_threads_,   \* std::vector<std::thread>: per thread its position in worker_loop, and joined
  active_threads,    \* metrics_.active_threads
  processed_items,   \* metrics_.processed_items
  total_latency_us,  \* metrics_.total_latency_us
  \* ---- control threads inside start / stop / pause / resume
  cpc,         \* control thread -> position in the call it makes
  cloc,        \* control thread -> loop index of the call, the last call returned,
               \*   whether that call was a start() that returned at its test, and
               \*   whether any start() of the thread has got past its test, and the
               \*   processed-item counts noted when its pause() / stop() took effect
  crashed,     \* the process was terminated (std::terminate, or a corrupted vector)
  \* ---- ThreadPool members, and the thread calling submit
  stats_,      \* TaskStats stats_ (total_tasks, completed_tasks, failed_tasks)
  futures,     \* what the std::future of each submitted task holds, in order of the run
  ppc,         \* thread -> position in submit_with_priority / enqueue_task, wait_all, start, stop
  ploc,        \* thread -> locals of the call (throws: the function of the task throws)
  num_threads_,  \* uint32_t num_threads_
  workers_,      \* std::vector<std::thread> workers_: per thread its position in worker_loop, and joined
  running_,      \* std::atomic<bool> running_
  \* ---- MetricsCollector members
  total_operations_,  \* std::atomic<uint64_t> total_operations_
  total_errors_,      \* std::atomic<uint64_t> total_errors_
  latency_sum_us_,    \* std::atomic<uint64_t> latency_sum_us_
  min_latency_us_,    \* std::atomic<uint64_t> min_latency_us_
  max_latency_us_,    \* std::atomic<uint64_t> max_latency_us_
  latency_samples_,   \* std::vector<uint64_t> latency_samples_
  \* ---- threads inside record_operation / get_aggregated
  mpc,         \* thread -> position in record_operation
  mloc,        \* thread -> arguments and locals of the call (latency_us, success,
               \*   min_val, max_val, and the end of the vector read by push_back)
  recorded,    \* the arguments of the record_operation calls made so far, in order
  snapshot,    \* the AggregatedMetrics returned by the last get_aggregated()
  aborted,     \* the unsynchronised vector was corrupted and the process ended
  \* ---- MemoryPool members
  blocks_,             \* std::vector<Block> blocks_: index -> [allocated]; data is the index
  free_count_,         \* std::atomic<uint32_t> free_count_
  total_allocations_,  \* std::atomic<uint64_t> total_allocations_
  total_deallocations_,\* std::atomic<uint64_t> total_deallocations_
  \* ---- one allocate() / deallocate() call per thread
  apc,         \* thread -> position in its call
  aloc,        \* thread -> locals of its call, and what its last call returned
  \* ---- history
  num_blocks,  \* the num_blocks the pool was constructed with
  allocates,   \* number of allocate() calls made
  held         \* thread -> block -> number of times allocate() returned it to the
               \* thread, less the deallocate() calls the thread made with it

avars == <<blocks_, free_count_, total_allocations_, total_deallocations_, apc, aloc,
           num_blocks, allocates, held>>

pvars == <<stats_, futures, ppc, ploc, num_threads_, workers_, running_>>

mvars == <<total_operations_, total_errors_, latency_sum_us_, min_latency_us_, max_latency_us_,
           latency_samples_, mpc, mloc, recorded, snapshot, aborted>>

evars == <<state_, config_, worker_threads_, active_threads, processed_items,
           total_latency_us, cpc, cloc, crashed>>

qvars == <<capacity_, mask_, buffer_, head_, tail_, qpc, qloc, calls, enqueued, dequeued, room, armed, cleared>>

(***************************************************************************)
(* uint32_t arithmetic of the queue.                                       *)
(***************************************************************************)
\* a & b on unsigned integers
RECURSIVE BitAnd(_, _)
BitAnd(a, b) ==
  IF a = 0 \/ b = 0 THEN 0
  ELSE (a % 2) * (b % 2) + 2 * BitAnd(a \div 2, b \div 2)

\* (i + 1) & mask_
NextIndex(i, mask) == BitAnd(i + 1, mask)

\* locals of a thread outside any call
NoLocals == [tail |-> 0, next_tail |-> 0, head |-> 0, value |-> 0, ret |-> FALSE]

\* clear() not called yet (enq, deq: lengths of enqueued and dequeued observed)
NoClear == [pc |-> "idle", enq |-> 0, deq |-> 0]

\* LockFreeQueue<T>::LockFreeQueue(capacity)
QueueInit(capacity) ==
  /\ capacity_ = capacity
  /\ mask_ = capacity - 1
  /\ buffer_ = [i \in 0 .. capacity - 1 |-> 0]
  /\ head_ = 0
  /\ tail_ = 0
  /\ qpc = [p \in Procs |-> "idle"]
  /\ qloc = [p \in Procs |-> NoLocals]
  /\ calls = 0
  /\ enqueued = <<>>
  /\ dequeued = <<>>
  /\ room = FALSE
  /\ armed = [p \in Producers |-> FALSE]
  /\ cleared = NoClear

(***************************************************************************)
(* bool LockFreeQueue<T>::enqueue(const T& value)                          *)
(***************************************************************************)
\* uint32_t tail = tail_.load(acquire); uint32_t next_tail = (tail + 1) & mask_;
enqueue_call(p) ==
  /\ qpc[p] = "idle"
  /\ calls < MaxVal
  /\ calls' = calls + 1
  /\ qloc' = [qloc EXCEPT ![p] = [NoLocals EXCEPT !.tail = tail_,
                                                  !.next_tail = NextIndex(tail_, mask_),
                                                  !.value = calls + 1]]
  /\ qpc' = [qpc EXCEPT ![p] = "e_chk"]
  /\ armed' = [armed EXCEPT ![p] = room]
  /\ UNCHANGED <<avars, evars, pvars, mvars, capacity_, mask_, buffer_, head_, tail_, enqueued, dequeued, room, cleared>>

\* enqueue without its test for a full queue
enqueue_check_no_full_test(p) ==
  /\ qpc[p] = "e_chk"
  /\ qpc' = [qpc EXCEPT ![p] = "e_write"]
  /\ UNCHANGED <<avars, evars, pvars, mvars, capacity_, mask_, buffer_, head_, tail_, qloc, calls, enqueued,
                 dequeued, room, armed, cleared>>

\* if (next_tail == head_.load(acquire)) return false;
enqueue_check(p) ==
  /\ qpc[p] = "e_chk"
  /\ IF qloc[p].next_tail = head_
     THEN /\ qpc' = [qpc EXCEPT ![p] = "idle"]
          /\ qloc' = [qloc EXCEPT ![p] = [NoLocals EXCEPT !.ret = FALSE]]
          /\ room' = FALSE
     ELSE /\ qpc' = [qpc EXCEPT ![p] = "e_write"]
          /\ UNCHANGED <<qloc, room>>
  /\ UNCHANGED <<avars, evars, pvars, mvars, capacity_, mask_, buffer_, head_, tail_, calls, enqueued, dequeued, armed, cleared>>

\* enqueue writing the slot after the one it publishes: buffer_[next_tail].data = value
enqueue_write_next_slot(p) ==
  /\ qpc[p] = "e_write"
  /\ buffer_' = [buffer_ EXCEPT ![qloc[p].next_tail] = qloc[p].value]
  /\ qpc' = [qpc EXCEPT ![p] = "e_pub"]
  /\ UNCHANGED <<avars, evars, pvars, mvars, capacity_, mask_, head_, tail_, qloc, calls, enqueued, dequeued, room, armed, cleared>>

\* enqueue storing the new tail before the slot is written
enqueue_write_published(p) ==
  /\ qpc[p] = "e_write"
  /\ tail_' = qloc[p].next_tail
  /\ qpc' = [qpc EXCEPT ![p] = "e_pub"]
  /\ UNCHANGED <<avars, evars, pvars, mvars, capacity_, mask_, buffer_, head_, qloc, calls, enqueued, dequeued, room, armed, cleared>>

\* buffer_[tail].data = value;
enqueue_write(p) ==
  /\ qpc[p] = "e_write"
  /\ buffer_' = [buffer_ EXCEPT ![qloc[p].tail] = qloc[p].value]
  /\ qpc' = [qpc EXCEPT ![p] = "e_pub"]
  /\ UNCHANGED <<avars, evars, pvars, mvars, capacity_, mask_, head_, tail_, qloc, calls, enqueued, dequeued, room, armed, cleared>>

\* tail_.store(next_tail, release); return true;
enqueue_publish(p) ==
  /\ qpc[p] = "e_pub"
  /\ tail_' = qloc[p].next_tail
  /\ enqueued' = Append(enqueued, qloc[p].value)
  /\ qpc' = [qpc EXCEPT ![p] = "idle"]
  /\ qloc' = [qloc EXCEPT ![p] = [NoLocals EXCEPT !.ret = TRUE]]
  /\ room' = FALSE
  /\ UNCHANGED <<avars, evars, pvars, mvars, capacity_, mask_, buffer_, head_, calls, dequeued, armed, cleared>>

(***************************************************************************)
(* bool LockFreeQueue<T>::dequeue(T& value)                                *)
(* qloc[c].value is the caller's T& value: it outlives the call.           *)
(***************************************************************************)
\* uint32_t head = head_.load(acquire);
dequeue_call(c) ==
  /\ qpc[c] = "idle"
  /\ qloc' = [qloc EXCEPT ![c].head = head_]
  /\ qpc' = [qpc EXCEPT ![c] = "d_chk"]
  /\ UNCHANGED <<avars, evars, pvars, mvars, capacity_, mask_, buffer_, head_, tail_, calls, enqueued, dequeued, room, armed, cleared>>

\* dequeue without its test for an empty queue
dequeue_check_no_empty_test(c) ==
  /\ qpc[c] = "d_chk"
  /\ qpc' = [qpc EXCEPT ![c] = "d_read"]
  /\ UNCHANGED <<avars, evars, pvars, mvars, capacity_, mask_, buffer_, head_, tail_, qloc, calls, enqueued,
                 dequeued, room, armed, cleared>>

\* dequeue that resets the caller's value when the queue is empty
dequeue_check_clears_value(c) ==
  /\ qpc[c] = "d_chk"
  /\ IF qloc[c].head = tail_
     THEN /\ qpc' = [qpc EXCEPT ![c] = "idle"]
          /\ qloc' = [qloc EXCEPT ![c].head = 0, ![c].ret = FALSE, ![c].value = 0]
     ELSE /\ qpc' = [qpc EXCEPT ![c] = "d_read"]
          /\ UNCHANGED qloc
  /\ UNCHANGED <<avars, evars, pvars, mvars, capacity_, mask_, buffer_, head_, tail_, calls, enqueued, dequeued, room, armed, cleared>>

\* if (head == tail_.load(acquire)) return false;
dequeue_check(c) ==
  /\ qpc[c] = "d_chk"
  /\ IF qloc[c].head = tail_
     THEN /\ qpc' = [qpc EXCEPT ![c] = "idle"]
          /\ qloc' = [qloc EXCEPT ![c].head = 0, ![c].ret = FALSE]
     ELSE /\ qpc' = [qpc EXCEPT ![c] = "d_read"]
          /\ UNCHANGED qloc
  /\ UNCHANGED <<avars, evars, pvars, mvars, capacity_, mask_, buffer_, head_, tail_, calls, enqueued, dequeued, room, armed, cleared>>

\* value = buffer_[head].data;
dequeue_read(c) ==
  /\ qpc[c] = "d_read"
  /\ qloc' = [qloc EXCEPT ![c].value = buffer_[qloc[c].head]]
  /\ qpc' = [qpc EXCEPT ![c] = "d_pub"]
  /\ UNCHANGED <<avars, evars, pvars, mvars, capacity_, mask_, buffer_, head_, tail_, calls, enqueued, dequeued, room, armed, cleared>>

\* uint32_t next_head = (head + 1) & mask_; head_.store(next_head, release); return true;
dequeue_publish(c) ==
  /\ qpc[c] = "d_pub"
  /\ head_' = NextIndex(qloc[c].head, mask_)
  /\ dequeued' = Append(dequeued, qloc[c].value)
  /\ qpc' = [qpc EXCEPT ![c] = "idle"]
  /\ qloc' = [qloc EXCEPT ![c].head = 0, ![c].ret = TRUE]
  /\ room' = TRUE
  /\ UNCHANGED <<avars, evars, pvars, mvars, capacity_, mask_, buffer_, tail_, calls, enqueued, armed, cleared>>

(***************************************************************************)
(* void LockFreeQueue<T>::clear(), called once by a thread of its own       *)
(***************************************************************************)
\* head_.store(0, release);
clear_head ==
  /\ cleared.pc = "idle"
  /\ head_' = 0
  /\ cleared' = [cleared EXCEPT !.pc = "c_tail", !.enq = Len(enqueued)]
  /\ UNCHANGED <<avars, evars, pvars, mvars, capacity_, mask_, buffer_, tail_, qpc, qloc, calls, enqueued, dequeued, room, armed>>

\* tail_.store(0, release);  return
clear_tail ==
  /\ cleared.pc = "c_tail"
  /\ tail_' = 0
  /\ cleared' = [cleared EXCEPT !.pc = "returned"]
  /\ UNCHANGED <<avars, evars, pvars, mvars, capacity_, mask_, buffer_, head_, qpc, qloc, calls, enqueued, dequeued, room, armed>>

\* after clear() returned its caller sees that no enqueue or dequeue is in progress
clear_settled ==
  /\ cleared.pc = "returned"
  /\ \A p \in Procs : qpc[p] = "idle"
  /\ cleared' = [cleared EXCEPT !.pc = "settled", !.deq = Len(dequeued)]
  /\ UNCHANGED <<avars, evars, pvars, mvars, capacity_, mask_, buffer_, head_, tail_, qpc, qloc, calls, enqueued, dequeued, room, armed>>

\* uint32_t LockFreeQueue<T>::size() const, called while no enqueue or dequeue
\* is in progress: (t - h) & mask_.  t - h is taken modulo 2^32; mask_ is
\* below 2^16, so the low 16 bits of the difference decide the result.
LockFreeQueue_size == BitAnd((tail_ - head_) % 65536, mask_)

(***************************************************************************)
(* CoreEngine                                                              *)
(***************************************************************************)
\* config_.num_threads is drawn from 0..MaxThreads
MaxThreads == 2
\* loop iterations the workers begin while the engine is not stopped
MaxProcessed == 2
\* microseconds a worker measures around its counter increment: 0..MaxLatency
MaxLatency == 1

Controllers == {"t1", "t2"}
SingleController == {"t1"}
\* positions of worker_threads_: each of two start() calls may append num_threads
WorkerIds == 1 .. 2 * MaxThreads

\* a control thread outside any call, none made yet (dtor: the thread is in
\* the destructor of the engine; base: the processed-item
\* count when the last pause() or stop() took effect; limit: the count the
\* iterations then in progress lead to)
NoCall == [i |-> 0, last |-> "none", early |-> FALSE, passed |-> FALSE, base |-> 0,
           limit |-> 0, dtor |-> FALSE]
\* control thread t has returned from call op
Returned(t, op, early) == [cloc[t] EXCEPT !.i = 0, !.last = op, !.early = early]

\* CoreEngine::CoreEngine(config): config_(config), state_(STOPPED)
EngineInit(num_threads, queue_capacity) ==
  /\ config_ = [num_threads |-> num_threads, queue_capacity |-> queue_capacity]
  /\ state_ = "STOPPED"
  /\ worker_threads_ = <<>>
  /\ active_threads = 0
  /\ processed_items = 0
  /\ total_latency_us = 0
  /\ cpc = [t \in Controllers |-> "idle"]
  /\ cloc = [t \in Controllers |-> NoCall]
  /\ crashed = FALSE

\* a control thread enters start(), stop(), pause() or resume()
Enter(t, op) ==
  /\ ~crashed
  /\ cpc[t] = "idle"
  /\ cpc' = [cpc EXCEPT ![t] = op]
  /\ UNCHANGED <<avars, qvars, pvars, mvars, state_, config_, worker_threads_, active_threads, processed_items,
                 total_latency_us, cloc, crashed>>

call_start(t) == Enter(t, "start")
call_stop(t) == Enter(t, "stop")
call_pause(t) == Enter(t, "pause")
call_resume(t) == Enter(t, "resume")
call_set_config(t) == Enter(t, "set_config")
call_destroy(t) == Enter(t, "destroy")

(***************************************************************************)
(* void CoreEngine::start()                                                *)
(***************************************************************************)
\* start() without its test of the state
start_test_no_guard(t) ==
  /\ ~crashed
  /\ cpc[t] = "start"
  /\ cpc' = [cpc EXCEPT ![t] = "start_set"]
  /\ cloc' = [cloc EXCEPT ![t].passed = TRUE]
  /\ UNCHANGED <<avars, qvars, pvars, mvars, state_, config_, worker_threads_, active_threads, processed_items,
                 total_latency_us, crashed>>

\* if (state_ != EngineState::STOPPED) return;
start_test(t) ==
  /\ ~crashed
  /\ cpc[t] = "start"
  /\ IF state_ # "STOPPED"
     THEN /\ cpc' = [cpc EXCEPT ![t] = "idle"]
          /\ cloc' = [cloc EXCEPT ![t] = Returned(t, "start", TRUE)]
     ELSE /\ cpc' = [cpc EXCEPT ![t] = "start_set"]
          /\ cloc' = [cloc EXCEPT ![t].passed = TRUE]
  /\ UNCHANGED <<avars, qvars, pvars, mvars, state_, config_, worker_threads_, active_threads, processed_items,
                 total_latency_us, crashed>>

\* state_ = EngineState::RUNNING;
start_set(t) ==
  /\ ~crashed
  /\ cpc[t] = "start_set"
  /\ state_' = "RUNNING"
  /\ cpc' = [cpc EXCEPT ![t] = "start_spawn"]
  /\ cloc' = [cloc EXCEPT ![t].i = 0]
  /\ UNCHANGED <<avars, qvars, pvars, mvars, config_, worker_threads_, active_threads, processed_items,
                 total_latency_us, crashed>>

\* for (uint32_t i = 0; i < config_.num_threads; ++i)
\*     worker_threads_.emplace_back([this] { worker_loop(); });
start_spawn(t) ==
  /\ ~crashed
  /\ cpc[t] = "start_spawn"
  /\ IF cloc[t].i < config_.num_threads
     THEN /\ worker_threads_' = Append(worker_threads_, [pc |-> "loop", joined |-> FALSE])
          /\ cloc' = [cloc EXCEPT ![t].i = @ + 1]
          /\ UNCHANGED cpc
     ELSE /\ cpc' = [cpc EXCEPT ![t] = "start_active"]
          /\ UNCHANGED <<worker_threads_, cloc>>
  /\ UNCHANGED <<avars, qvars, pvars, mvars, state_, config_, active_threads, processed_items,
                 total_latency_us, crashed>>

\* metrics_.active_threads = config_.num_threads;
start_active(t) ==
  /\ ~crashed
  /\ cpc[t] = "start_active"
  /\ active_threads' = config_.num_threads
  /\ cpc' = [cpc EXCEPT ![t] = "idle"]
  /\ cloc' = [cloc EXCEPT ![t] = Returned(t, "start", FALSE)]
  /\ UNCHANGED <<avars, qvars, pvars, mvars, state_, config_, worker_threads_, processed_items,
                 total_latency_us, crashed>>

\* the workers that are past both tests of the loop, in an iteration not yet counted
InProgress == {w \in DOMAIN worker_threads_ : worker_threads_[w].pc = "work"}
\* the workers that are past the while-test, in an iteration not yet counted
Begun == {w \in DOMAIN worker_threads_ : worker_threads_[w].pc \in {"chk", "work"}}

(***************************************************************************)
(* void CoreEngine::stop()                                                 *)
(***************************************************************************)
\* expected = RUNNING; if (!state_.compare_exchange_strong(expected, STOPPED)) ...
stop_cas_running(t) ==
  /\ ~crashed
  /\ cpc[t] = "stop"
  /\ IF state_ = "RUNNING"
     THEN /\ state_' = "STOPPED"
          /\ cpc' = [cpc EXCEPT ![t] = "stop_join"]
          /\ cloc' = [cloc EXCEPT ![t].i = 1, ![t].base = processed_items,
                                  ![t].limit = processed_items + Cardinality(Begun)]
     ELSE /\ cpc' = [cpc EXCEPT ![t] = "stop_cas_paused"]
          /\ UNCHANGED <<state_, cloc>>
  /\ UNCHANGED <<avars, qvars, pvars, mvars, config_, worker_threads_, active_threads, processed_items,
                 total_latency_us, crashed>>

\* stop() without its second compare-exchange
stop_cas_paused_skipped(t) ==
  /\ ~crashed
  /\ cpc[t] = "stop_cas_paused"
  /\ cpc' = [cpc EXCEPT ![t] = "stop_join"]
  /\ cloc' = [cloc EXCEPT ![t].i = 1]
  /\ UNCHANGED <<avars, qvars, pvars, mvars, state_, config_, worker_threads_, active_threads, processed_items,
                 total_latency_us, crashed>>

\* ... { expected = PAUSED; state_.compare_exchange_strong(expected, STOPPED); }
stop_cas_paused(t) ==
  /\ ~crashed
  /\ cpc[t] = "stop_cas_paused"
  /\ IF state_ = "PAUSED"
     THEN /\ state_' = "STOPPED"
          /\ cloc' = [cloc EXCEPT ![t].i = 1, ![t].base = processed_items,
                                  ![t].limit = processed_items + Cardinality(InProgress)]
     ELSE /\ UNCHANGED state_
          /\ cloc' = [cloc EXCEPT ![t].i = 1]
  /\ cpc' = [cpc EXCEPT ![t] = "stop_join"]
  /\ UNCHANGED <<avars, qvars, pvars, mvars, config_, worker_threads_, active_threads, processed_items,
                 total_latency_us, crashed>>

\* for (auto& t : worker_threads_) if (t.joinable()) t.join();
\* join() returns once the thread has left worker_loop
stop_join(t) ==
  /\ ~crashed
  /\ cpc[t] = "stop_join"
  /\ LET k == cloc[t].i IN
     IF k > Len(worker_threads_)
     THEN /\ cpc' = [cpc EXCEPT ![t] = "stop_clear"]
          /\ UNCHANGED <<worker_threads_, cloc>>
     ELSE /\ worker_threads_[k].joined \/ worker_threads_[k].pc = "done"
          /\ worker_threads_' = [worker_threads_ EXCEPT ![k].joined = TRUE]
          /\ cloc' = [cloc EXCEPT ![t].i = k + 1]
          /\ UNCHANGED cpc
  /\ UNCHANGED <<avars, qvars, pvars, mvars, state_, config_, active_threads, processed_items,
                 total_latency_us, crashed>>

\* worker_threads_.clear();   (destroying a joinable std::thread calls std::terminate)
stop_clear(t) ==
  /\ ~crashed
  /\ cpc[t] = "stop_clear"
  /\ IF \E k \in DOMAIN worker_threads_ : ~worker_threads_[k].joined
     THEN /\ crashed' = TRUE
          /\ UNCHANGED <<worker_threads_, cpc>>
     ELSE /\ worker_threads_' = <<>>
          /\ cpc' = [cpc EXCEPT ![t] = "stop_active"]
          /\ UNCHANGED crashed
  /\ UNCHANGED <<avars, qvars, pvars, mvars, state_, config_, active_threads, processed_items,
                 total_latency_us, cloc>>

\* metrics_.active_threads = 0;   and stop() returns, to the destructor when
\* the destructor called it
stop_active(t) ==
  /\ ~crashed
  /\ cpc[t] = "stop_active"
  /\ active_threads' = 0
  /\ cpc' = [cpc EXCEPT ![t] = IF cloc[t].dtor THEN "destroy_members" ELSE "idle"]
  /\ cloc' = [cloc EXCEPT ![t] = Returned(t, "stop", FALSE)]
  /\ UNCHANGED <<avars, qvars, pvars, mvars, state_, config_, worker_threads_, processed_items,
                 total_latency_us, crashed>>

(***************************************************************************)
(* CoreEngine::~CoreEngine()                                               *)
(***************************************************************************)
\* if (is_running()) stop();      is_running(): state_.load(acquire) == RUNNING
destroy_test(t) ==
  /\ ~crashed
  /\ cpc[t] = "destroy"
  /\ cpc' = [cpc EXCEPT ![t] = IF state_ = "RUNNING" THEN "stop" ELSE "destroy_members"]
  /\ cloc' = [cloc EXCEPT ![t].dtor = TRUE]
  /\ UNCHANGED <<avars, qvars, pvars, mvars, state_, config_, worker_threads_, active_threads, processed_items,
                 total_latency_us, crashed>>

\* the members are destroyed: ~vector<std::thread> destroys every element, and
\* destroying a std::thread that is joinable calls std::terminate; the object
\* is gone afterwards and no call on it is made
destroy_members(t) ==
  /\ ~crashed
  /\ cpc[t] = "destroy_members"
  /\ IF \E k \in DOMAIN worker_threads_ : ~worker_threads_[k].joined
     THEN /\ crashed' = TRUE
          /\ UNCHANGED <<worker_threads_, cpc>>
     ELSE /\ worker_threads_' = <<>>
          /\ cpc' = [cpc EXCEPT ![t] = "destroyed"]
          /\ UNCHANGED crashed
  /\ UNCHANGED <<avars, qvars, pvars, mvars, state_, config_, active_threads, processed_items,
                 total_latency_us, cloc>>

(***************************************************************************)
(* void CoreEngine::pause()  /  void CoreEngine::resume()                  *)
(***************************************************************************)
\* state_ = EngineState::PAUSED;
pause_store(t) ==
  /\ ~crashed
  /\ cpc[t] = "pause"
  /\ state_' = "PAUSED"
  /\ cpc' = [cpc EXCEPT ![t] = "idle"]
  /\ cloc' = [cloc EXCEPT ![t] = [Returned(t, "pause", FALSE) EXCEPT
                                    !.base = processed_items,
                                    !.limit = processed_items + Cardinality(InProgress)]]
  /\ UNCHANGED <<avars, qvars, pvars, mvars, config_, worker_threads_, active_threads, processed_items,
                 total_latency_us, crashed>>

\* if (state_ == EngineState::PAUSED)
resume_test(t) ==
  /\ ~crashed
  /\ cpc[t] = "resume"
  /\ IF state_ = "PAUSED"
     THEN /\ cpc' = [cpc EXCEPT ![t] = "resume_set"]
          /\ UNCHANGED cloc
     ELSE /\ cpc' = [cpc EXCEPT ![t] = "idle"]
          /\ cloc' = [cloc EXCEPT ![t] = Returned(t, "resume", FALSE)]
  /\ UNCHANGED <<avars, qvars, pvars, mvars, state_, config_, worker_threads_, active_threads, processed_items,
                 total_latency_us, crashed>>

\*     state_ = EngineState::RUNNING;
resume_set(t) ==
  /\ ~crashed
  /\ cpc[t] = "resume_set"
  /\ state_' = "RUNNING"
  /\ cpc' = [cpc EXCEPT ![t] = "idle"]
  /\ cloc' = [cloc EXCEPT ![t] = Returned(t, "resume", FALSE)]
  /\ UNCHANGED <<avars, qvars, pvars, mvars, config_, worker_threads_, active_threads, processed_items,
                 total_latency_us, crashed>>

(***************************************************************************)
(* void CoreEngine::set_config(const EngineConfig& config)                 *)
(***************************************************************************)
\* if (!is_running())      is_running(): state_.load(acquire) == RUNNING
set_config_test(t) ==
  /\ ~crashed
  /\ cpc[t] = "set_config"
  /\ IF state_ = "RUNNING"
     THEN /\ cpc' = [cpc EXCEPT ![t] = "idle"]
          /\ cloc' = [cloc EXCEPT ![t] = Returned(t, "set_config", TRUE)]
     ELSE /\ cpc' = [cpc EXCEPT ![t] = "set_config_store"]
          /\ UNCHANGED cloc
  /\ UNCHANGED <<avars, qvars, pvars, mvars, state_, config_, worker_threads_, active_threads, processed_items,
                 total_latency_us, crashed>>

\*     config_ = config;
set_config_store(t) ==
  /\ ~crashed
  /\ cpc[t] = "set_config_store"
  /\ \E num_threads \in 0 .. MaxThreads, queue_capacity \in 1 .. MaxCapacity :
        config_' = [num_threads |-> num_threads, queue_capacity |-> queue_capacity]
  /\ cpc' = [cpc EXCEPT ![t] = "idle"]
  /\ cloc' = [cloc EXCEPT ![t] = Returned(t, "set_config", FALSE)]
  /\ UNCHANGED <<avars, qvars, pvars, mvars, state_, worker_threads_, active_threads, processed_items,
                 total_latency_us, crashed>>

(***************************************************************************)
(* void CoreEngine::worker_loop(), run by worker_threads_[w]               *)
(***************************************************************************)
\* while (state_ != EngineState::STOPPED) {
worker_loop_test(w) ==
  /\ ~crashed
  /\ w \in DOMAIN worker_threads_
  /\ worker_threads_[w].pc = "loop"
  /\ IF state_ = "STOPPED"
     THEN worker_threads_' = [worker_threads_ EXCEPT ![w].pc = "done"]
     ELSE /\ processed_items < MaxProcessed
          /\ worker_threads_' = [worker_threads_ EXCEPT ![w].pc = "chk"]
  /\ UNCHANGED <<avars, qvars, pvars, mvars, state_, config_, active_threads, processed_items,
                 total_latency_us, cpc, cloc, crashed>>

\* a worker loop without its test for PAUSED
worker_pause_test_skipped(w) ==
  /\ ~crashed
  /\ w \in DOMAIN worker_threads_
  /\ worker_threads_[w].pc = "chk"
  /\ worker_threads_' = [worker_threads_ EXCEPT ![w].pc = "work"]
  /\ UNCHANGED <<avars, qvars, pvars, mvars, state_, config_, active_threads, processed_items,
                 total_latency_us, cpc, cloc, crashed>>

\*     if (state_ == EngineState::PAUSED) { sleep_for(10ms); continue; }
worker_pause_test(w) ==
  /\ ~crashed
  /\ w \in DOMAIN worker_threads_
  /\ worker_threads_[w].pc = "chk"
  /\ worker_threads_' = [worker_threads_ EXCEPT
                           ![w].pc = IF state_ = "PAUSED" THEN "loop" ELSE "work"]
  /\ UNCHANGED <<avars, qvars, pvars, mvars, state_, config_, active_threads, processed_items,
                 total_latency_us, cpc, cloc, crashed>>

\*     metrics_.processed_items.fetch_add(1, release);
worker_count(w) ==
  /\ ~crashed
  /\ w \in DOMAIN worker_threads_
  /\ worker_threads_[w].pc = "work"
  /\ processed_items' = processed_items + 1
  /\ worker_threads_' = [worker_threads_ EXCEPT ![w].pc = "lat"]
  /\ UNCHANGED <<avars, qvars, pvars, mvars, state_, config_, active_threads, total_latency_us, cpc, cloc, crashed>>

\*     metrics_.total_latency_us.fetch_add(latency_us, release); }
worker_latency(w) ==
  /\ ~crashed
  /\ w \in DOMAIN worker_threads_
  /\ worker_threads_[w].pc = "lat"
  /\ \E latency_us \in 0 .. MaxLatency : total_latency_us' = total_latency_us + latency_us
  /\ worker_threads_' = [worker_threads_ EXCEPT ![w].pc = "loop"]
  /\ UNCHANGED <<avars, qvars, pvars, mvars, state_, config_, active_threads, processed_items, cpc, cloc, crashed>>

\* Two control threads inside start() at once: both call emplace_back on the one
\* std::vector, which is a data race; besides both elements being appended
\* (start_spawn), the vector may be corrupted and the process end.
vector_race(t) ==
  /\ ~crashed
  /\ cpc[t] = "start_spawn" /\ cloc[t].i < config_.num_threads
  /\ \E u \in Controllers \ {t} : cpc[u] = "start_spawn" /\ cloc[u].i < config_.num_threads
  /\ crashed' = TRUE
  /\ UNCHANGED <<avars, qvars, pvars, mvars, state_, config_, worker_threads_, active_threads, processed_items,
                 total_latency_us, cpc, cloc>>

(***************************************************************************)
(* ThreadPool                                                              *)
(***************************************************************************)
\* number of tasks submitted by one thread, and by racing threads
MaxTasks == 4
MaxRaceTasks == 2
\* number of std::thread objects workers_ may hold
MaxPoolWorkers == 4

\* threads using the pool: two that submit, one that calls start / stop / wait_all
PoolThreads == {"s1", "s2", "m"}
Submitters == {"s1", "s2"}
SingleSubmitter == {"s1"}
PoolMain == {"m"}

\* locals of a thread outside any call
NoPoolLocals == [throws |-> FALSE, total |-> 0, completed |-> 0, i |-> 0]

\* ThreadPool::ThreadPool(num_threads): num_threads_(num_threads ? num_threads :
\* hardware_concurrency()), TaskStats stats_ with its member initialisers
PoolConstruct(num_threads, hardware_concurrency) ==
  /\ num_threads_ = IF num_threads # 0 THEN num_threads ELSE hardware_concurrency
  /\ workers_ = <<>>
  /\ running_ = FALSE
  /\ stats_ = [total_tasks |-> 0, completed_tasks |-> 0, failed_tasks |-> 0]
  /\ futures = <<>>
  /\ ppc = [t \in PoolThreads |-> "idle"]
  /\ ploc = [t \in PoolThreads |-> NoPoolLocals]

PoolInit == PoolConstruct(1, 1)

\* submit_with_priority(priority, fn, args...): the promise and the task
\* lambda are made; fn is any function, one that returns or one that throws
submit_call(t) ==
  /\ ppc[t] = "idle"
  /\ stats_.total_tasks < MaxTasks
  /\ \E throws \in BOOLEAN : ploc' = [ploc EXCEPT ![t] = [NoPoolLocals EXCEPT !.throws = throws]]
  /\ ppc' = [ppc EXCEPT ![t] = "enqueue_task"]
  /\ UNCHANGED <<avars, qvars, evars, mvars, stats_, futures, num_threads_, workers_, running_>>

\* enqueue_task: stats_.total_tasks++ on the plain uint64_t: the value is read ...
enqueue_task_load(t) ==
  /\ ppc[t] = "enqueue_task"
  /\ ploc' = [ploc EXCEPT ![t].total = stats_.total_tasks]
  /\ ppc' = [ppc EXCEPT ![t] = "count"]
  /\ UNCHANGED <<avars, qvars, evars, mvars, stats_, futures, num_threads_, workers_, running_>>

\* ... and the value plus one is written back
enqueue_task_count(t) ==
  /\ ppc[t] = "count"
  /\ stats_' = [stats_ EXCEPT !.total_tasks = ploc[t].total + 1]
  /\ ppc' = [ppc EXCEPT ![t] = "task"]
  /\ UNCHANGED <<avars, qvars, evars, mvars, futures, ploc, num_threads_, workers_, running_>>

\* enqueue_task: if (task) { task();    the task is the lambda of
\* submit_with_priority: try { std::apply(fn, args); promise->set_value(); }
\* catch (...) { promise->set_exception(std::current_exception()); }
task_run(t) ==
  /\ ppc[t] = "task"
  /\ futures' = Append(futures, IF ploc[t].throws THEN "exception" ELSE "value")
  /\ ppc' = [ppc EXCEPT ![t] = "completed"]
  /\ UNCHANGED <<avars, qvars, evars, mvars, stats_, ploc, num_threads_, workers_, running_>>

\* enqueue_task: stats_.completed_tasks++ on the plain uint64_t: the value is read ...
task_completed_load(t) ==
  /\ ppc[t] = "completed"
  /\ ploc' = [ploc EXCEPT ![t].completed = stats_.completed_tasks]
  /\ ppc' = [ppc EXCEPT ![t] = "completed_store"]
  /\ UNCHANGED <<avars, qvars, evars, mvars, stats_, futures, num_threads_, workers_, running_>>

\* ... and the value plus one is written back; }   then submit returns the future
task_completed(t) ==
  /\ ppc[t] = "completed_store"
  /\ stats_' = [stats_ EXCEPT !.completed_tasks = ploc[t].completed + 1]
  /\ ppc' = [ppc EXCEPT ![t] = "idle"]
  /\ UNCHANGED <<avars, qvars, evars, mvars, futures, ploc, num_threads_, workers_, running_>>

\* a thread calls wait_all()
wait_all_call(t) ==
  /\ ppc[t] = "idle"
  /\ ppc' = [ppc EXCEPT ![t] = "wait_test"]
  /\ ploc' = [ploc EXCEPT ![t] = NoPoolLocals]
  /\ UNCHANGED <<avars, qvars, evars, mvars, stats_, futures, num_threads_, workers_, running_>>

\* while (stats_.completed_tasks < stats_.total_tasks) {
wait_all_test(t) ==
  /\ ppc[t] = "wait_test"
  /\ ppc' = [ppc EXCEPT ![t] = IF stats_.completed_tasks < stats_.total_tasks
                                THEN "wait_sleep" ELSE "idle"]
  /\ UNCHANGED <<avars, qvars, evars, mvars, stats_, futures, ploc, num_threads_, workers_, running_>>

\*   std::this_thread::sleep_for(1ms); }
wait_all_sleep(t) ==
  /\ ppc[t] = "wait_sleep"
  /\ ppc' = [ppc EXCEPT ![t] = "wait_test"]
  /\ UNCHANGED <<avars, qvars, evars, mvars, stats_, futures, ploc, num_threads_, workers_, running_>>

\* ThreadPool::start(): running_.store(true, release);
pool_start_call(t) ==
  /\ ppc[t] = "idle"
  /\ Len(workers_) + num_threads_ <= MaxPoolWorkers
  /\ running_' = TRUE
  /\ ppc' = [ppc EXCEPT ![t] = "start_spawn"]
  /\ ploc' = [ploc EXCEPT ![t] = NoPoolLocals]
  /\ UNCHANGED <<avars, qvars, evars, mvars, stats_, futures, num_threads_, workers_>>

\* for (uint32_t i = 0; i < num_threads_; ++i) workers_.emplace_back(worker_loop);
pool_start_spawn(t) ==
  /\ ppc[t] = "start_spawn"
  /\ IF ploc[t].i < num_threads_
     THEN /\ workers_' = Append(workers_, [pc |-> "test", joined |-> FALSE])
          /\ ploc' = [ploc EXCEPT ![t].i = @ + 1]
          /\ UNCHANGED ppc
     ELSE /\ ppc' = [ppc EXCEPT ![t] = "idle"]
          /\ UNCHANGED <<workers_, ploc>>
  /\ UNCHANGED <<avars, qvars, evars, mvars, stats_, futures, num_threads_, running_>>

\* ThreadPool::stop(): running_.store(false, release);
pool_stop_call(t) ==
  /\ ppc[t] = "idle"
  /\ running_' = FALSE
  /\ ppc' = [ppc EXCEPT ![t] = "stop_join"]
  /\ ploc' = [ploc EXCEPT ![t] = [NoPoolLocals EXCEPT !.i = 1]]
  /\ UNCHANGED <<avars, qvars, evars, mvars, stats_, futures, num_threads_, workers_>>

\* for (auto& worker : workers_) if (worker.joinable()) worker.join();
\* workers_.clear();       join returns once the worker has left worker_loop
pool_stop_join(t) ==
  /\ ppc[t] = "stop_join"
  /\ LET i == ploc[t].i IN
       IF i <= Len(workers_)
       THEN /\ IF ~workers_[i].joined
               THEN /\ workers_[i].pc = "done"
                    /\ workers_' = [workers_ EXCEPT ![i].joined = TRUE]
               ELSE UNCHANGED workers_
            /\ ploc' = [ploc EXCEPT ![t].i = i + 1]
            /\ UNCHANGED ppc
       ELSE /\ workers_' = <<>>
            /\ ppc' = [ppc EXCEPT ![t] = "idle"]
            /\ UNCHANGED ploc
  /\ UNCHANGED <<avars, qvars, evars, mvars, stats_, futures, num_threads_, running_>>

\* ThreadPool::worker_loop: while (running_.load(acquire)) {
pool_worker_test(k) ==
  /\ k \in DOMAIN workers_
  /\ workers_[k].pc = "test"
  /\ workers_' = [workers_ EXCEPT ![k].pc = IF running_ THEN "sleep" ELSE "done"]
  /\ UNCHANGED <<avars, qvars, evars, mvars, stats_, futures, ppc, ploc, num_threads_, running_>>

\*   std::this_thread::sleep_for(10ms); }
pool_worker_sleep(k) ==
  /\ k \in DOMAIN workers_
  /\ workers_[k].pc = "sleep"
  /\ workers_' = [workers_ EXCEPT ![k].pc = "test"]
  /\ UNCHANGED <<avars, qvars, evars, mvars, stats_, futures, ppc, ploc, num_threads_, running_>>

\* bool ThreadPool::is_running() const
ThreadPool_is_running == running_

(***************************************************************************)
(* MetricsCollector                                                        *)
(***************************************************************************)
\* latencies handed to record_operation: 0 .. MaxSample
MaxSample == 2
\* number of record_operation calls made by one thread, and by racing threads
MaxRecords == 3
MaxRaceRecords == 2
\* seconds the clock may have advanced since start_time_
MaxUptime == 1

\* the largest uint64_t: above every latency the model hands in
UINT64_MAX == MaxSample + 1

Recorders == {"r1", "r2"}
\* one thread using the collector
SingleRecorder == {"r1"}

\* a quotient of two integers held as a double
Ratio(n, d) == [num |-> n, den |-> d]
RatioEq(a, b) == a.num * b.den = b.num * a.den

\* std::sort(sorted.begin(), sorted.end()): the elements in ascending order
\* (computed around the median of the first, middle and last element, so
\* that long vectors stay shallow)
Median3(a, b, c) ==
  IF (a <= b /\ b <= c) \/ (c <= b /\ b <= a) THEN b
  ELSE IF (b <= a /\ a <= c) \/ (c <= a /\ a <= b) THEN a
  ELSE c

RECURSIVE SortAscending(_)
SortAscending(q) ==
  IF Len(q) <= 1 THEN q
  ELSE LET pivot == Median3(q[1], q[(Len(q) + 1) \div 2], q[Len(q)])
           Below(x) == x < pivot
           Equal(x) == x = pivot
           Above(x) == x > pivot
       IN SortAscending(SelectSeq(q, Below)) \o SelectSeq(q, Equal)
            \o SortAscending(SelectSeq(q, Above))

\* for (uint64_t val : sorted) sum += val;   (added up by halves)
RECURSIVE SumSeq(_)
SumSeq(q) ==
  IF Len(q) = 0 THEN 0
  ELSE IF Len(q) = 1 THEN q[1]
  ELSE LET h == Len(q) \div 2
       IN SumSeq(SubSeq(q, 1, h)) + SumSeq(SubSeq(q, h + 1, Len(q)))

\* the elements of the vector: those below its end in its storage
Samples == SubSeq(latency_samples_.buf, 1, latency_samples_.size)

\* the storage buf with v written at slot i; a slot of the storage never
\* written holds g
StoreAt(buf, i, v, g) ==
  [k \in 1 .. (IF i > Len(buf) THEN i ELSE Len(buf)) |->
     IF k = i THEN v ELSE IF k <= Len(buf) THEN buf[k] ELSE g]
\* the storage buf reaching at least to slot n
Reach(buf, n, g) ==
  [k \in 1 .. (IF n > Len(buf) THEN n ELSE Len(buf)) |-> IF k <= Len(buf) THEN buf[k] ELSE g]

\* PercentileMetrics, as the header declares it: p50, p95, p99, p999, mean
DefaultPercentiles == [p50 |-> 0, p95 |-> 0, p99 |-> 0, p999 |-> 0, mean |-> Ratio(0, 1)]

\* AggregatedMetrics with its member initialisers (taken: returned by a call)
DefaultAggregated ==
  [taken |-> FALSE, latency_us |-> DefaultPercentiles, throughput_ops_sec |-> Ratio(0, 1),
   total_operations |-> 0, total_errors |-> 0, error_rate |-> Ratio(0, 1),
   uptime_seconds |-> 0]

\* a thread outside any call (discarded: the number of recorded calls its last
\* reset() discarded, -1 before its first reset())
NoRecord == [latency_us |-> 0, success |-> TRUE, min_val |-> 0, max_val |-> 0, end |-> 0,
             agg |-> DefaultAggregated, discarded |-> -1]

\* MetricsCollector::MetricsCollector(), and the member initialisers of the header
MetricsInit ==
  /\ total_operations_ = 0
  /\ total_errors_ = 0
  /\ latency_sum_us_ = 0
  /\ min_latency_us_ = UINT64_MAX
  /\ max_latency_us_ = 0
  /\ latency_samples_ = [buf |-> <<>>, size |-> 0]
  /\ mpc = [r \in Recorders |-> "idle"]
  /\ mloc = [r \in Recorders |-> NoRecord]
  /\ recorded = <<>>
  /\ snapshot = DefaultAggregated
  /\ aborted = FALSE

\* calculate_percentiles with the nearest-rank index ceil(size * k) - 1
PercentilesNearestRank(samples) ==
  IF samples = <<>> THEN DefaultPercentiles
  ELSE LET sorted == SortAscending(samples)
           size == Len(sorted)
       IN [p50 |-> sorted[(size * 50 + 99) \div 100],
           p95 |-> sorted[(size * 95 + 99) \div 100],
           p99 |-> sorted[(size * 99 + 99) \div 100],
           p999 |-> sorted[size],
           mean |-> Ratio(SumSeq(sorted), size)]

\* PercentileMetrics MetricsCollector::calculate_percentiles() const, on the
\* vector samples (static_cast<size_t>(size * 0.95) is size * 95 / 100
\* rounded down, for the sizes of the model)
Percentiles(samples) ==
  IF samples = <<>> THEN DefaultPercentiles
  ELSE LET sorted == SortAscending(samples)
           size == Len(sorted)
       IN [p50 |-> sorted[size \div 2 + 1],
           p95 |-> sorted[(size * 95) \div 100 + 1],
           p99 |-> sorted[(size * 99) \div 100 + 1],
           p999 |-> sorted[size - 1 + 1],
           mean |-> Ratio(SumSeq(sorted), size)]

calculate_percentiles == Percentiles(Samples)

\* a thread calls record_operation(latency_us, success); the value returned
\* by an earlier get_aggregated() is not kept across the call (recorded: the
\* calls made since the collector was constructed or reset)
record_call(r) ==
  /\ ~aborted
  /\ mpc[r] = "idle"
  /\ Len(recorded) < MaxRecords
  /\ \E latency_us \in 0 .. MaxSample, success \in BOOLEAN :
       /\ mloc' = [mloc EXCEPT ![r] = [NoRecord EXCEPT !.latency_us = latency_us,
                                                       !.success = success,
                                                       !.discarded = mloc[r].discarded]]
       /\ recorded' = Append(recorded, [latency_us |-> latency_us, success |-> success])
  /\ mpc' = [mpc EXCEPT ![r] = "count"]
  /\ snapshot' = DefaultAggregated
  /\ UNCHANGED <<avars, qvars, evars, pvars, total_operations_, total_errors_, latency_sum_us_,
                 min_latency_us_, max_latency_us_, latency_samples_, aborted>>

\* total_operations_.fetch_add(1, release);
record_count(r) ==
  /\ ~aborted
  /\ mpc[r] = "count"
  /\ total_operations_' = total_operations_ + 1
  /\ mpc' = [mpc EXCEPT ![r] = "error"]
  /\ UNCHANGED <<avars, qvars, evars, pvars, total_errors_, latency_sum_us_, min_latency_us_,
                 max_latency_us_, latency_samples_, mloc, recorded, snapshot, aborted>>

\* if (!success) total_errors_.fetch_add(1, release);
record_error(r) ==
  /\ ~aborted
  /\ mpc[r] = "error"
  /\ total_errors_' = IF ~mloc[r].success THEN total_errors_ + 1 ELSE total_errors_
  /\ mpc' = [mpc EXCEPT ![r] = "sum"]
  /\ UNCHANGED <<avars, qvars, evars, pvars, total_operations_, latency_sum_us_, min_latency_us_,
                 max_latency_us_, latency_samples_, mloc, recorded, snapshot, aborted>>

\* latency_sum_us_.fetch_add(latency_us, release);
record_sum(r) ==
  /\ ~aborted
  /\ mpc[r] = "sum"
  /\ latency_sum_us_' = latency_sum_us_ + mloc[r].latency_us
  /\ mpc' = [mpc EXCEPT ![r] = "min_load"]
  /\ UNCHANGED <<avars, qvars, evars, pvars, total_operations_, total_errors_, min_latency_us_,
                 max_latency_us_, latency_samples_, mloc, recorded, snapshot, aborted>>

\* uint64_t min_val = min_latency_us_.load(acquire);   (also the loop body)
record_min_load(r) ==
  /\ ~aborted
  /\ mpc[r] = "min_load"
  /\ mloc' = [mloc EXCEPT ![r].min_val = min_latency_us_]
  /\ mpc' = [mpc EXCEPT ![r] = "min_cas"]
  /\ UNCHANGED <<avars, qvars, evars, pvars, total_operations_, total_errors_, latency_sum_us_,
                 min_latency_us_, max_latency_us_, latency_samples_, recorded, snapshot,
                 aborted>>

\* the minimum stored without the compare-exchange
record_min_store(r) ==
  /\ ~aborted
  /\ mpc[r] = "min_cas"
  /\ min_latency_us_' = IF mloc[r].latency_us < mloc[r].min_val THEN mloc[r].latency_us
                        ELSE min_latency_us_
  /\ mpc' = [mpc EXCEPT ![r] = "max_load"]
  /\ UNCHANGED <<avars, qvars, evars, pvars, total_operations_, total_errors_, latency_sum_us_,
                 max_latency_us_, latency_samples_, mloc, recorded, snapshot, aborted>>

\* while (latency_us < min_val &&
\*        !min_latency_us_.compare_exchange_weak(min_val, latency_us, release))
\* the weak compare-exchange stores only if the value is still min_val, and
\* may fail even then; when it fails the body loads min_val again
record_min_cas(r) ==
  /\ ~aborted
  /\ mpc[r] = "min_cas"
  /\ IF mloc[r].latency_us < mloc[r].min_val
     THEN \/ /\ min_latency_us_ = mloc[r].min_val
             /\ min_latency_us_' = mloc[r].latency_us
             /\ mpc' = [mpc EXCEPT ![r] = "max_load"]
          \/ /\ UNCHANGED min_latency_us_
             /\ mpc' = [mpc EXCEPT ![r] = "min_load"]
     ELSE /\ UNCHANGED min_latency_us_
          /\ mpc' = [mpc EXCEPT ![r] = "max_load"]
  /\ UNCHANGED <<avars, qvars, evars, pvars, total_operations_, total_errors_, latency_sum_us_,
                 max_latency_us_, latency_samples_, mloc, recorded, snapshot, aborted>>

\* uint64_t max_val = max_latency_us_.load(acquire);   (also the loop body)
record_max_load(r) ==
  /\ ~aborted
  /\ mpc[r] = "max_load"
  /\ mloc' = [mloc EXCEPT ![r].max_val = max_latency_us_]
  /\ mpc' = [mpc EXCEPT ![r] = "max_cas"]
  /\ UNCHANGED <<avars, qvars, evars, pvars, total_operations_, total_errors_, latency_sum_us_,
                 min_latency_us_, max_latency_us_, latency_samples_, recorded, snapshot,
                 aborted>>

\* while (latency_us > max_val &&
\*        !max_latency_us_.compare_exchange_weak(max_val, latency_us, release))
record_max_cas(r) ==
  /\ ~aborted
  /\ mpc[r] = "max_cas"
  /\ IF mloc[r].latency_us > mloc[r].max_val
     THEN \/ /\ max_latency_us_ = mloc[r].max_val
             /\ max_latency_us_' = mloc[r].latency_us
             /\ mpc' = [mpc EXCEPT ![r] = "push_back"]
          \/ /\ UNCHANGED max_latency_us_
             /\ mpc' = [mpc EXCEPT ![r] = "max_load"]
     ELSE /\ UNCHANGED max_latency_us_
          /\ mpc' = [mpc EXCEPT ![r] = "push_back"]
  /\ UNCHANGED <<avars, qvars, evars, pvars, total_operations_, total_errors_, latency_sum_us_,
                 min_latency_us_, latency_samples_, mloc, recorded, snapshot, aborted>>

\* latency_samples_.push_back(latency_us): the end of the vector is read ...
push_back_read(r) ==
  /\ ~aborted
  /\ mpc[r] = "push_back"
  /\ mloc' = [mloc EXCEPT ![r].end = latency_samples_.size]
  /\ mpc' = [mpc EXCEPT ![r] = "push_back_write"]
  /\ UNCHANGED <<avars, qvars, evars, pvars, total_operations_, total_errors_, latency_sum_us_,
                 min_latency_us_, max_latency_us_, latency_samples_, recorded, snapshot,
                 aborted>>

\* ... the element is constructed at that end and the end is moved by one. The
\* vector is a plain std::vector: the new end is the end read plus one, or
\* (the end read again) the current end plus one; a slot below the new end
\* that no call has written holds whatever the storage held (g).
push_back_write(r) ==
  /\ ~aborted
  /\ mpc[r] = "push_back_write"
  /\ \E size \in {mloc[r].end + 1, latency_samples_.size + 1}, g \in 0 .. MaxSample :
       latency_samples_' =
         [buf |-> Reach(StoreAt(latency_samples_.buf, mloc[r].end + 1, mloc[r].latency_us, g),
                        size, g),
          size |-> size]
  /\ mpc' = [mpc EXCEPT ![r] = "idle"]
  /\ UNCHANGED <<avars, qvars, evars, pvars, total_operations_, total_errors_, latency_sum_us_,
                 min_latency_us_, max_latency_us_, mloc, recorded, snapshot, aborted>>

\* Two threads inside push_back on the one std::vector at once is a data
\* race: besides the interleavings of push_back_read / push_back_write, the
\* vector may be reallocated under the other thread and the process end.
push_back_race(r) ==
  /\ ~aborted
  /\ mpc[r] = "push_back_write"
  /\ \E u \in Recorders \ {r} : mpc[u] = "push_back_write"
  /\ aborted' = TRUE
  /\ UNCHANGED <<avars, qvars, evars, pvars, total_operations_, total_errors_, latency_sum_us_,
                 min_latency_us_, max_latency_us_, latency_samples_, mpc, mloc, recorded,
                 snapshot>>

\* calculate_percentiles copies the std::vector while another thread is inside
\* push_back on it: the same data race; besides reading the vector before or
\* after the push_back (get_aggregated_return), the process may end.
copy_race(r) ==
  /\ ~aborted
  /\ mpc[r] = "agg_return"
  /\ \E u \in Recorders \ {r} : mpc[u] = "push_back_write"
  /\ aborted' = TRUE
  /\ UNCHANGED <<avars, qvars, evars, pvars, total_operations_, total_errors_, latency_sum_us_,
                 min_latency_us_, max_latency_us_, latency_samples_, mpc, mloc, recorded,
                 snapshot>>

(***************************************************************************)
(* AggregatedMetrics MetricsCollector::get_aggregated() const              *)
(***************************************************************************)
\* AggregatedMetrics agg;  agg.total_operations = total_operations_.load(acquire);
get_aggregated_call(r) ==
  /\ ~aborted
  /\ mpc[r] = "idle"
  /\ mloc' = [mloc EXCEPT ![r].agg = [DefaultAggregated EXCEPT
                                        !.total_operations = total_operations_]]
  /\ mpc' = [mpc EXCEPT ![r] = "agg_errors"]
  /\ UNCHANGED <<avars, qvars, evars, pvars, total_operations_, total_errors_, latency_sum_us_,
                 min_latency_us_, max_latency_us_, latency_samples_, recorded, snapshot,
                 aborted>>

\* agg.total_errors = total_errors_.load(acquire);
\* agg.error_rate = agg.total_operations > 0 ? total_errors / total_operations : 0.0;
get_aggregated_errors(r) ==
  /\ ~aborted
  /\ mpc[r] = "agg_errors"
  /\ LET agg == mloc[r].agg IN
     mloc' = [mloc EXCEPT ![r].agg =
                [agg EXCEPT !.total_errors = total_errors_,
                            !.error_rate = IF agg.total_operations > 0
                                           THEN Ratio(total_errors_, agg.total_operations)
                                           ELSE Ratio(0, 1)]]
  /\ mpc' = [mpc EXCEPT ![r] = "agg_mean"]
  /\ UNCHANGED <<avars, qvars, evars, pvars, total_operations_, total_errors_, latency_sum_us_,
                 min_latency_us_, max_latency_us_, latency_samples_, recorded, snapshot,
                 aborted>>

\* uint64_t latency_sum = latency_sum_us_.load(acquire);
\* agg.latency_us.mean = agg.total_operations > 0 ? latency_sum / total_operations : 0.0;
get_aggregated_mean(r) ==
  /\ ~aborted
  /\ mpc[r] = "agg_mean"
  /\ LET agg == mloc[r].agg IN
     mloc' = [mloc EXCEPT ![r].agg.latency_us.mean =
                IF agg.total_operations > 0 THEN Ratio(latency_sum_us_, agg.total_operations)
                ELSE Ratio(0, 1)]
  /\ mpc' = [mpc EXCEPT ![r] = "agg_min"]
  /\ UNCHANGED <<avars, qvars, evars, pvars, total_operations_, total_errors_, latency_sum_us_,
                 min_latency_us_, max_latency_us_, latency_samples_, recorded, snapshot,
                 aborted>>

\* agg.latency_us.min = min_latency_us_.load(acquire);
get_aggregated_min(r) ==
  /\ ~aborted
  /\ mpc[r] = "agg_min"
  /\ LET latency_us == mloc[r].agg.latency_us IN
     mloc' = [mloc EXCEPT ![r].agg.latency_us =
                [f \in DOMAIN latency_us \cup {"min"} |->
                   IF f = "min" THEN min_latency_us_ ELSE latency_us[f]]]
  /\ mpc' = [mpc EXCEPT ![r] = "agg_max"]
  /\ UNCHANGED <<avars, qvars, evars, pvars, total_operations_, total_errors_, latency_sum_us_,
                 min_latency_us_, max_latency_us_, latency_samples_, recorded, snapshot,
                 aborted>>

\* agg.latency_us.max = max_latency_us_.load(acquire);
get_aggregated_max(r) ==
  /\ ~aborted
  /\ mpc[r] = "agg_max"
  /\ LET latency_us == mloc[r].agg.latency_us IN
     mloc' = [mloc EXCEPT ![r].agg.latency_us =
                [f \in DOMAIN latency_us \cup {"max"} |->
                   IF f = "max" THEN max_latency_us_ ELSE latency_us[f]]]
  /\ mpc' = [mpc EXCEPT ![r] = "agg_return"]
  /\ UNCHANGED <<avars, qvars, evars, pvars, total_operations_, total_errors_, latency_sum_us_,
                 min_latency_us_, max_latency_us_, latency_samples_, recorded, snapshot,
                 aborted>>

\* get_aggregated that divides by the uptime without testing it
get_aggregated_return_unguarded(r) ==
  /\ ~aborted
  /\ mpc[r] = "agg_return"
  /\ \E uptime \in 0 .. MaxUptime :
       snapshot' = [mloc[r].agg EXCEPT
                      !.taken = TRUE,
                      !.uptime_seconds = uptime,
                      !.throughput_ops_sec = Ratio(mloc[r].agg.total_operations, uptime),
                      !.latency_us = calculate_percentiles]
  /\ mloc' = [mloc EXCEPT ![r] = [NoRecord EXCEPT !.discarded = mloc[r].discarded]]
  /\ mpc' = [mpc EXCEPT ![r] = "idle"]
  /\ UNCHANGED <<avars, qvars, evars, pvars, total_operations_, total_errors_, latency_sum_us_,
                 min_latency_us_, max_latency_us_, latency_samples_, recorded, aborted>>

\* agg.uptime_seconds = duration_cast<seconds>(now - start_time_).count();
\* if (agg.uptime_seconds > 0) agg.throughput_ops_sec = total_operations / uptime_seconds;
\* agg.latency_us = calculate_percentiles();
\* return agg;
get_aggregated_return(r) ==
  /\ ~aborted
  /\ mpc[r] = "agg_return"
  /\ \E uptime \in 0 .. MaxUptime :
       snapshot' = [mloc[r].agg EXCEPT
                      !.taken = TRUE,
                      !.uptime_seconds = uptime,
                      !.throughput_ops_sec =
                         IF uptime > 0 THEN Ratio(mloc[r].agg.total_operations, uptime) ELSE @,
                      !.latency_us = calculate_percentiles]
  /\ mloc' = [mloc EXCEPT ![r] = [NoRecord EXCEPT !.discarded = mloc[r].discarded]]
  /\ mpc' = [mpc EXCEPT ![r] = "idle"]
  /\ UNCHANGED <<avars, qvars, evars, pvars, total_operations_, total_errors_, latency_sum_us_,
                 min_latency_us_, max_latency_us_, latency_samples_, recorded, aborted>>

(***************************************************************************)
(* void MetricsCollector::reset()                                          *)
(***************************************************************************)
\* a thread calls reset(); the value returned by an earlier get_aggregated()
\* is not kept across the call
reset_call(r) ==
  /\ ~aborted
  /\ mpc[r] = "idle"
  /\ mpc' = [mpc EXCEPT ![r] = "reset_operations"]
  /\ snapshot' = DefaultAggregated
  /\ UNCHANGED <<avars, qvars, evars, pvars, total_operations_, total_errors_, latency_sum_us_, min_latency_us_, max_latency_us_, latency_samples_, mloc, recorded, aborted>>

\* total_operations_.store(0, release);
reset_operations(r) ==
  /\ ~aborted
  /\ mpc[r] = "reset_operations"
  /\ total_operations_' = 0
  /\ mpc' = [mpc EXCEPT ![r] = "reset_errors"]
  /\ UNCHANGED <<avars, qvars, evars, pvars, total_errors_, latency_sum_us_, min_latency_us_, max_latency_us_, latency_samples_, mloc, recorded, snapshot, aborted>>

\* total_errors_.store(0, release);
reset_errors(r) ==
  /\ ~aborted
  /\ mpc[r] = "reset_errors"
  /\ total_errors_' = 0
  /\ mpc' = [mpc EXCEPT ![r] = "reset_sum"]
  /\ UNCHANGED <<avars, qvars, evars, pvars, total_operations_, latency_sum_us_, min_latency_us_, max_latency_us_, latency_samples_, mloc, recorded, snapshot, aborted>>

\* latency_sum_us_.store(0, release);
reset_sum(r) ==
  /\ ~aborted
  /\ mpc[r] = "reset_sum"
  /\ latency_sum_us_' = 0
  /\ mpc' = [mpc EXCEPT ![r] = "reset_min"]
  /\ UNCHANGED <<avars, qvars, evars, pvars, total_operations_, total_errors_, min_latency_us_, max_latency_us_, latency_samples_, mloc, recorded, snapshot, aborted>>

\* reset that stores 0 as the minimum
reset_min_zero(r) ==
  /\ ~aborted
  /\ mpc[r] = "reset_min"
  /\ min_latency_us_' = 0
  /\ mpc' = [mpc EXCEPT ![r] = "reset_max"]
  /\ UNCHANGED <<avars, qvars, evars, pvars, total_operations_, total_errors_, latency_sum_us_, max_latency_us_, latency_samples_, mloc, recorded, snapshot, aborted>>

\* min_latency_us_.store(UINT64_MAX, release);
reset_min(r) ==
  /\ ~aborted
  /\ mpc[r] = "reset_min"
  /\ min_latency_us_' = UINT64_MAX
  /\ mpc' = [mpc EXCEPT ![r] = "reset_max"]
  /\ UNCHANGED <<avars, qvars, evars, pvars, total_operations_, total_errors_, latency_sum_us_, max_latency_us_, latency_samples_, mloc, recorded, snapshot, aborted>>

\* max_latency_us_.store(0, release);
reset_max(r) ==
  /\ ~aborted
  /\ mpc[r] = "reset_max"
  /\ max_latency_us_' = 0
  /\ mpc' = [mpc EXCEPT ![r] = "reset_clear"]
  /\ UNCHANGED <<avars, qvars, evars, pvars, total_operations_, total_errors_, latency_sum_us_, min_latency_us_, latency_samples_, mloc, recorded, snapshot, aborted>>

\* latency_samples_.clear();  start_time_ = now();  return
\* (clear() destroys the elements and sets the size to 0; the uptime of a later
\* get_aggregated() is drawn anew in get_aggregated_return)
reset_clear(r) ==
  /\ ~aborted
  /\ mpc[r] = "reset_clear"
  /\ latency_samples_' = [buf |-> <<>>, size |-> 0]
  /\ recorded' = <<>>
  /\ mloc' = [mloc EXCEPT ![r] = [NoRecord EXCEPT !.discarded = Len(recorded)]]
  /\ mpc' = [mpc EXCEPT ![r] = "idle"]
  /\ UNCHANGED <<avars, qvars, evars, pvars, total_operations_, total_errors_, latency_sum_us_,
                 min_latency_us_, max_latency_us_, snapshot, aborted>>

(***************************************************************************)
(* MemoryPool: a fixed set of blocks handed out by allocate() and taken    *)
(* back by deallocate().  Block::allocated is a plain bool, read and       *)
(* written with no lock; free_count_ and the totals are atomics.  Each     *)
(* access of a flag and each atomic operation is one step; a flag read     *)
(* that races with a write yields the value before or after the write.     *)
(* A uint32_t is held as the integer congruent to it modulo 2^32 that is   *)
(* nearest to 0: -1 stands for 4294967295.                                 *)
(***************************************************************************)
MaxBlocks == 2
MaxAllocates == 4
Allocators == {"a1", "a2"}
SingleAllocator == {"a1"}
BlockIds == 0 .. MaxBlocks - 1
nullptr == -1

\* a > 0 and a < b on uint32_t values
U32Positive(a) == a # 0
U32Less(a, b) == IF (a >= 0) = (b >= 0) THEN a < b ELSE b < 0

\* blocks_.size()
BlocksSize == Cardinality(DOMAIN blocks_)

\* a thread outside any call
NoAlloc == [i |-> 0, ptr |-> nullptr, last |-> "none", ret |-> nullptr, full |-> FALSE]

\* MemoryPool::MemoryPool(block_size, num_blocks)
MemoryInit(n) ==
  /\ blocks_ = [b \in 0 .. n - 1 |-> [allocated |-> FALSE]]
  /\ free_count_ = n
  /\ total_allocations_ = 0
  /\ total_deallocations_ = 0
  /\ apc = [t \in Allocators |-> "idle"]
  /\ aloc = [t \in Allocators |-> NoAlloc]
  /\ num_blocks = n
  /\ allocates = 0
  /\ held = [t \in Allocators |-> [b \in BlockIds |-> 0]]

\* a thread calls allocate() (full: every block is marked in use at the call)
allocate_call(t) ==
  /\ apc[t] = "idle"
  /\ allocates < MaxAllocates
  /\ allocates' = allocates + 1
  /\ apc' = [apc EXCEPT ![t] = "has_free"]
  /\ aloc' = [aloc EXCEPT ![t] = [NoAlloc EXCEPT
                 !.last = "allocate",
                 !.full = \A b \in DOMAIN blocks_ : blocks_[b].allocated]]
  /\ UNCHANGED <<qvars, evars, pvars, mvars, blocks_, free_count_, total_allocations_, total_deallocations_, num_blocks, held>>

\* if (has_free_blocks()) { for (auto& block : blocks_) ... }  return nullptr;
allocate_has_free(t) ==
  /\ apc[t] = "has_free"
  /\ IF U32Positive(free_count_)
     THEN /\ apc' = [apc EXCEPT ![t] = "scan"]
          /\ aloc' = [aloc EXCEPT ![t].i = 0]
     ELSE /\ apc' = [apc EXCEPT ![t] = "idle"]
          /\ aloc' = [aloc EXCEPT ![t].ret = nullptr]
  /\ UNCHANGED <<qvars, evars, pvars, mvars, blocks_, free_count_, total_allocations_, total_deallocations_, num_blocks, allocates, held>>

\* for (auto& block : blocks_) { if (!block.allocated) ... }  return nullptr;
allocate_scan(t) ==
  /\ apc[t] = "scan"
  /\ LET i == aloc[t].i IN
       IF i >= BlocksSize
       THEN /\ apc' = [apc EXCEPT ![t] = "idle"]
            /\ aloc' = [aloc EXCEPT ![t].ret = nullptr]
       ELSE IF ~blocks_[i].allocated
       THEN /\ apc' = [apc EXCEPT ![t] = "mark"]
            /\ UNCHANGED aloc
       ELSE /\ aloc' = [aloc EXCEPT ![t].i = i + 1]
            /\ UNCHANGED apc
  /\ UNCHANGED <<qvars, evars, pvars, mvars, blocks_, free_count_, total_allocations_, total_deallocations_, num_blocks, allocates, held>>

\* block.allocated = true;
allocate_mark(t) ==
  /\ apc[t] = "mark"
  /\ blocks_' = [blocks_ EXCEPT ![aloc[t].i].allocated = TRUE]
  /\ apc' = [apc EXCEPT ![t] = "sub"]
  /\ UNCHANGED <<qvars, evars, pvars, mvars, free_count_, total_allocations_, total_deallocations_, aloc, num_blocks, allocates, held>>

\* free_count_.fetch_sub(1, release);
allocate_sub(t) ==
  /\ apc[t] = "sub"
  /\ free_count_' = free_count_ - 1
  /\ apc' = [apc EXCEPT ![t] = "count"]
  /\ UNCHANGED <<qvars, evars, pvars, mvars, blocks_, total_allocations_, total_deallocations_, aloc, num_blocks, allocates, held>>

\* total_allocations_.fetch_add(1, release);  return block.data;
allocate_count(t) ==
  /\ apc[t] = "count"
  /\ total_allocations_' = total_allocations_ + 1
  /\ aloc' = [aloc EXCEPT ![t].ret = aloc[t].i]
  /\ held' = [held EXCEPT ![t][aloc[t].i] = @ + 1]
  /\ apc' = [apc EXCEPT ![t] = "idle"]
  /\ UNCHANGED <<qvars, evars, pvars, mvars, blocks_, free_count_, total_deallocations_, num_blocks, allocates>>

\* a thread calls deallocate(ptr) with a block it holds
deallocate_call(t) ==
  /\ apc[t] = "idle"
  /\ \E ptr \in BlockIds :
       /\ held[t][ptr] > 0
       /\ held' = [held EXCEPT ![t][ptr] = @ - 1]
       /\ aloc' = [aloc EXCEPT ![t] = [NoAlloc EXCEPT !.last = "deallocate",
                                                      !.ptr = ptr, !.i = 0]]
  /\ apc' = [apc EXCEPT ![t] = "find"]
  /\ UNCHANGED <<qvars, evars, pvars, mvars, blocks_, free_count_, total_allocations_, total_deallocations_, num_blocks, allocates>>

\* pointers that are no block of the pool: nullptr and an address outside it
ForeignPointers == {nullptr, MaxBlocks}

\* a thread calls deallocate(ptr) with a pointer that is no block of the pool
\* or with a block that is free at the call
deallocate_call_any(t) ==
  /\ apc[t] = "idle"
  /\ \E ptr \in BlockIds \cup ForeignPointers :
       /\ ptr \in DOMAIN blocks_ => ~blocks_[ptr].allocated
       /\ aloc' = [aloc EXCEPT ![t] = [NoAlloc EXCEPT !.last = "deallocate_any",
                                                      !.ptr = ptr, !.i = 0]]
  /\ apc' = [apc EXCEPT ![t] = "find"]
  /\ UNCHANGED <<qvars, evars, pvars, mvars, blocks_, free_count_, total_allocations_, total_deallocations_, num_blocks, allocates, held>>

\* deallocate that looks for the pointer only, whatever the block's flag is
deallocate_find_any_flag(t) ==
  /\ apc[t] = "find"
  /\ LET i == aloc[t].i IN
       IF i >= BlocksSize
       THEN /\ apc' = [apc EXCEPT ![t] = "idle"]
            /\ UNCHANGED aloc
       ELSE IF i = aloc[t].ptr
       THEN /\ apc' = [apc EXCEPT ![t] = "clear"]
            /\ UNCHANGED aloc
       ELSE /\ aloc' = [aloc EXCEPT ![t].i = i + 1]
            /\ UNCHANGED apc
  /\ UNCHANGED <<qvars, evars, pvars, mvars, blocks_, free_count_, total_allocations_, total_deallocations_, num_blocks, allocates, held>>

\* for (auto& block : blocks_) { if (block.data == ptr && block.allocated) ... }
deallocate_find(t) ==
  /\ apc[t] = "find"
  /\ LET i == aloc[t].i IN
       IF i >= BlocksSize
       THEN /\ apc' = [apc EXCEPT ![t] = "idle"]
            /\ UNCHANGED aloc
       ELSE IF i = aloc[t].ptr /\ blocks_[i].allocated
       THEN /\ apc' = [apc EXCEPT ![t] = "clear"]
            /\ UNCHANGED aloc
       ELSE /\ aloc' = [aloc EXCEPT ![t].i = i + 1]
            /\ UNCHANGED apc
  /\ UNCHANGED <<qvars, evars, pvars, mvars, blocks_, free_count_, total_allocations_, total_deallocations_, num_blocks, allocates, held>>

\* block.allocated = false;
deallocate_clear(t) ==
  /\ apc[t] = "clear"
  /\ blocks_' = [blocks_ EXCEPT ![aloc[t].i].allocated = FALSE]
  /\ apc' = [apc EXCEPT ![t] = "add"]
  /\ UNCHANGED <<qvars, evars, pvars, mvars, free_count_, total_allocations_, total_deallocations_, aloc, num_blocks, allocates, held>>

\* deallocate that does not give the block back to free_count_
deallocate_add_skipped(t) ==
  /\ apc[t] = "add"
  /\ apc' = [apc EXCEPT ![t] = "dcount"]
  /\ UNCHANGED <<qvars, evars, pvars, mvars, blocks_, free_count_, total_allocations_, total_deallocations_, aloc, num_blocks, allocates, held>>

\* free_count_.fetch_add(1, release);
deallocate_add(t) ==
  /\ apc[t] = "add"
  /\ free_count_' = free_count_ + 1
  /\ apc' = [apc EXCEPT ![t] = "dcount"]
  /\ UNCHANGED <<qvars, evars, pvars, mvars, blocks_, total_allocations_, total_deallocations_, aloc, num_blocks, allocates, held>>

\* total_deallocations_.fetch_add(1, release);  return;
deallocate_count(t) ==
  /\ apc[t] = "dcount"
  /\ total_deallocations_' = total_deallocations_ + 1
  /\ apc' = [apc EXCEPT ![t] = "idle"]
  /\ UNCHANGED <<qvars, evars, pvars, mvars, blocks_, free_count_, total_allocations_, aloc, num_blocks, allocates, held>>

\* PoolStats MemoryPool::get_stats() const
get_stats ==
  [total_blocks |-> BlocksSize,
   free_blocks |-> free_count_,
   allocated_blocks |-> BlocksSize - free_count_,
   total_allocations |-> total_allocations_,
   total_deallocations |-> total_deallocations_]

(***************************************************************************)
(* Specifications.                                                         *)
(***************************************************************************)
vars == <<qvars, evars, pvars, mvars, avars>>

\* a queue of any capacity the constructor takes, no call made yet (no engine in use)
InitQueue ==
  /\ \E capacity \in 1 .. MaxCapacity : QueueInit(capacity)
  /\ EngineInit(1, 2)
  /\ PoolInit /\ MetricsInit /\ MemoryInit(1)

\* an engine of any configuration the constructor takes (no queue in use)
InitEngine ==
  /\ \E num_threads \in 0 .. MaxThreads, queue_capacity \in 1 .. MaxCapacity :
        EngineInit(num_threads, queue_capacity)
  /\ QueueInit(2)
  /\ PoolInit /\ MetricsInit /\ MemoryInit(1)

\* one control thread calling start / stop / pause / resume, and the workers
NextEngine ==
  \/ \E t \in SingleController :
        \/ call_start(t) \/ start_test(t) \/ start_set(t) \/ start_spawn(t) \/ start_active(t)
        \/ call_stop(t) \/ stop_cas_running(t) \/ stop_cas_paused(t) \/ stop_join(t)
        \/ stop_clear(t) \/ stop_active(t)
        \/ call_pause(t) \/ pause_store(t)
        \/ call_resume(t) \/ resume_test(t) \/ resume_set(t)
  \/ \E w \in WorkerIds :
        worker_loop_test(w) \/ worker_pause_test(w) \/ worker_count(w) \/ worker_latency(w)

SpecEngine == InitEngine /\ [][NextEngine]_vars

\* The threads are OS threads: a control thread inside a call goes on (it need
\* not make another call), and every worker thread goes on.
ControlStep(t) ==
  \/ start_test(t) \/ start_set(t) \/ start_spawn(t) \/ start_active(t)
  \/ stop_cas_running(t) \/ stop_cas_paused(t) \/ stop_join(t) \/ stop_clear(t)
  \/ stop_active(t) \/ pause_store(t) \/ resume_test(t) \/ resume_set(t)

WorkerStep(w) ==
  worker_loop_test(w) \/ worker_pause_test(w) \/ worker_count(w) \/ worker_latency(w)

\* an engine of any thread count (the engine code reads no other field of the
\* configuration)
InitEngineThreads ==
  /\ \E num_threads \in 0 .. MaxThreads : EngineInit(num_threads, 2)
  /\ QueueInit(2)
  /\ PoolInit /\ MetricsInit /\ MemoryInit(1)

SpecEngineFair ==
  /\ InitEngineThreads /\ [][NextEngine]_vars
  /\ \A t \in SingleController : WF_evars(ControlStep(t))
  /\ \A w \in WorkerIds : WF_evars(WorkerStep(w))

\* one control thread calling start / stop / pause / resume / set_config, and
\* the workers
NextEngineConfig ==
  \/ \E t \in SingleController :
        \/ call_start(t) \/ start_test(t) \/ start_set(t) \/ start_spawn(t) \/ start_active(t)
        \/ call_stop(t) \/ stop_cas_running(t) \/ stop_cas_paused(t) \/ stop_join(t)
        \/ stop_clear(t) \/ stop_active(t)
        \/ call_pause(t) \/ pause_store(t)
        \/ call_resume(t) \/ resume_test(t) \/ resume_set(t)
        \/ call_set_config(t) \/ set_config_test(t) \/ set_config_store(t)
  \/ \E w \in WorkerIds :
        worker_loop_test(w) \/ worker_pause_test(w) \/ worker_count(w) \/ worker_latency(w)

SpecEngineConfig == InitEngine /\ [][NextEngineConfig]_vars

\* one control thread calling start / stop / pause / resume and at last
\* destroying the engine, and the workers
NextEngineDestroy ==
  \/ \E t \in SingleController :
        \/ call_start(t) \/ start_test(t) \/ start_set(t) \/ start_spawn(t) \/ start_active(t)
        \/ call_stop(t) \/ stop_cas_running(t) \/ stop_cas_paused(t) \/ stop_join(t)
        \/ stop_clear(t) \/ stop_active(t)
        \/ call_pause(t) \/ pause_store(t)
        \/ call_resume(t) \/ resume_test(t) \/ resume_set(t)
        \/ call_destroy(t) \/ destroy_test(t) \/ destroy_members(t)
  \/ \E w \in WorkerIds :
        worker_loop_test(w) \/ worker_pause_test(w) \/ worker_count(w) \/ worker_latency(w)

SpecEngineDestroy == InitEngineThreads /\ [][NextEngineDestroy]_vars

\* two control threads calling start() on the one engine, and the workers
NextConcurrentStart ==
  \/ \E t \in Controllers :
        \/ call_start(t) \/ start_test(t) \/ start_set(t) \/ start_spawn(t) \/ start_active(t)
        \/ vector_race(t)
  \/ \E w \in WorkerIds :
        worker_loop_test(w) \/ worker_pause_test(w) \/ worker_count(w) \/ worker_latency(w)

SpecConcurrentStart == InitEngine /\ [][NextConcurrentStart]_vars

\* one control thread calling start / stop while a second control thread calls
\* pause / resume on the same engine, and the workers (a second thread
\* calling start is the subject of SpecConcurrentStart)
OtherController == Controllers \ SingleController

NextConcurrentStop ==
  \/ \E t \in SingleController :
        \/ call_start(t) \/ start_test(t) \/ start_set(t) \/ start_spawn(t) \/ start_active(t)
        \/ call_stop(t) \/ stop_cas_running(t) \/ stop_cas_paused(t) \/ stop_join(t)
        \/ stop_clear(t) \/ stop_active(t)
  \/ \E t \in OtherController :
        \/ call_pause(t) \/ pause_store(t)
        \/ call_resume(t) \/ resume_test(t) \/ resume_set(t)
  \/ \E w \in WorkerIds :
        worker_loop_test(w) \/ worker_pause_test(w) \/ worker_count(w) \/ worker_latency(w)

\* an engine of one worker thread
InitEngineOne ==
  /\ EngineInit(1, 2)
  /\ QueueInit(2)
  /\ PoolInit /\ MetricsInit /\ MemoryInit(1)

SpecConcurrentStop ==
  /\ InitEngineOne /\ [][NextConcurrentStop]_vars
  /\ \A t \in Controllers : WF_vars(ControlStep(t))
  /\ \A w \in WorkerIds : WF_vars(WorkerStep(w))

\* one thread calling enqueue, one thread calling dequeue
NextSPSC ==
  \/ \E p \in SPSCProducers :
        enqueue_call(p) \/ enqueue_check(p) \/ enqueue_write(p) \/ enqueue_publish(p)
  \/ \E c \in SPSCConsumers :
        dequeue_call(c) \/ dequeue_check(c) \/ dequeue_read(c) \/ dequeue_publish(c)

SpecSPSC == InitQueue /\ [][NextSPSC]_vars

\* the same two threads, and a third thread that calls clear() once
NextClear ==
  \/ NextSPSC
  \/ clear_head \/ clear_tail \/ clear_settled

SpecClear == InitQueue /\ [][NextClear]_vars

\* the same two threads on a queue of any capacity up to WideCapacity
WideCapacity == 6
InitWideQueue ==
  /\ \E capacity \in 1 .. WideCapacity : QueueInit(capacity)
  /\ EngineInit(1, 2)
  /\ PoolInit /\ MetricsInit /\ MemoryInit(1)

SpecWideSPSC == InitWideQueue /\ [][NextSPSC]_vars

\* Several threads in enqueue or in dequeue. The calls are bounded: racing
\* consumers can return the same slot again and again.
race_enqueue_call(p) == enqueue_call(p) /\ calls' <= MaxRaceCalls
race_dequeue_publish(c) == dequeue_publish(c) /\ Len(dequeued') <= MaxRaceDequeues

\* one thread calling enqueue, two threads calling dequeue (the worker pool's use)
NextSPMC ==
  \/ \E p \in SPSCProducers :
        race_enqueue_call(p) \/ enqueue_check(p) \/ enqueue_write(p) \/ enqueue_publish(p)
  \/ \E c \in Consumers :
        dequeue_call(c) \/ dequeue_check(c) \/ dequeue_read(c) \/ race_dequeue_publish(c)

SpecSPMC == InitQueue /\ [][NextSPMC]_vars

\* two threads calling enqueue, one thread calling dequeue
NextMPSC ==
  \/ \E p \in Producers :
        race_enqueue_call(p) \/ enqueue_check(p) \/ enqueue_write(p) \/ enqueue_publish(p)
  \/ \E c \in SPSCConsumers :
        dequeue_call(c) \/ dequeue_check(c) \/ dequeue_read(c) \/ race_dequeue_publish(c)

SpecMPSC == InitQueue /\ [][NextMPSC]_vars

\* a thread pool, no task submitted yet, and a metrics collector, no call
\* made yet (no queue and no engine in use)
InitPool ==
  /\ PoolInit /\ MetricsInit
  /\ QueueInit(2) /\ EngineInit(1, 2) /\ MemoryInit(1)

\* one thread submitting tasks to the pool
NextPool ==
  \E t \in SingleSubmitter :
    \/ submit_call(t) \/ enqueue_task_load(t) \/ enqueue_task_count(t)
    \/ task_run(t) \/ task_completed_load(t) \/ task_completed(t)

SpecPool == InitPool /\ [][NextPool]_vars

\* two threads submitting tasks while a third calls wait_all(); a few tasks are
\* enough for two increments to meet
race_submit_call(t) == submit_call(t) /\ Len(futures) < MaxRaceTasks

SubmitStep(t) ==
  \/ enqueue_task_load(t) \/ enqueue_task_count(t)
  \/ task_run(t) \/ task_completed_load(t) \/ task_completed(t)

WaitStep(t) == wait_all_test(t) \/ wait_all_sleep(t)

NextConcurrentSubmit ==
  \/ \E t \in Submitters : race_submit_call(t) \/ SubmitStep(t)
  \/ \E t \in PoolMain : wait_all_call(t) \/ WaitStep(t)

\* every thread inside a call goes on running
SpecConcurrentSubmit ==
  /\ InitPool /\ [][NextConcurrentSubmit]_vars
  /\ \A t \in Submitters : WF_vars(SubmitStep(t))
  /\ \A t \in PoolMain : WF_vars(WaitStep(t))

\* a pool of any number of threads the constructor takes; one thread calls
\* start() and stop() in any order while the workers run
InitThreadPool ==
  /\ \E n \in 0 .. MaxThreads, hw \in 0 .. MaxThreads : PoolConstruct(n, hw)
  /\ MetricsInit /\ QueueInit(2) /\ EngineInit(1, 2) /\ MemoryInit(1)

NextThreadPool ==
  \/ \E t \in PoolMain : pool_start_call(t) \/ pool_start_spawn(t) \/ pool_stop_call(t) \/ pool_stop_join(t)
  \/ \E k \in 1 .. MaxPoolWorkers : pool_worker_test(k) \/ pool_worker_sleep(k)

SpecThreadPool == InitThreadPool /\ [][NextThreadPool]_vars

\* one thread calling record_operation and get_aggregated
NextMetrics ==
  \E r \in SingleRecorder :
    \/ record_call(r) \/ record_count(r) \/ record_error(r) \/ record_sum(r)
    \/ record_min_load(r) \/ record_min_cas(r) \/ record_max_load(r) \/ record_max_cas(r)
    \/ push_back_read(r) \/ push_back_write(r)
    \/ get_aggregated_call(r) \/ get_aggregated_errors(r) \/ get_aggregated_mean(r)
    \/ get_aggregated_min(r) \/ get_aggregated_max(r) \/ get_aggregated_return(r)
    \/ reset_call(r) \/ reset_operations(r) \/ reset_errors(r) \/ reset_sum(r)
    \/ reset_min(r) \/ reset_max(r) \/ reset_clear(r)

SpecMetrics == InitPool /\ [][NextMetrics]_vars

\* get_aggregated() on a collector that has recorded a vector of samples: the
\* vectors are the values 1 .. n in three arrangements, for every length up to
\* MaxVectorLen and for the lengths around LargeLen
MaxVectorLen == 100
LargeLen == 1001
VectorLens == (1 .. MaxVectorLen) \cup {LargeLen - 1, LargeLen}
Arrangements == {"ascending", "descending", "rotated"}
Vector(n, a) ==
  [i \in 1 .. n |-> IF a = "ascending" THEN i
                    ELSE IF a = "descending" THEN n + 1 - i
                    ELSE ((i + n \div 2 - 1) % n) + 1]

\* the collector after record_operation(q[1], true), ..., record_operation(q[n], true)
\* called one after the other on a new collector
RecordedState(q) ==
  /\ total_operations_ = Len(q)
  /\ total_errors_ = 0
  /\ latency_sum_us_ = SumSeq(q)
  /\ min_latency_us_ = SortAscending(q)[1]
  /\ max_latency_us_ = SortAscending(q)[Len(q)]
  /\ latency_samples_ = [buf |-> q, size |-> Len(q)]
  /\ mpc = [r \in Recorders |-> "idle"]
  /\ mloc = [r \in Recorders |-> NoRecord]
  /\ recorded = [i \in 1 .. Len(q) |-> [latency_us |-> q[i], success |-> TRUE]]
  /\ snapshot = DefaultAggregated
  /\ aborted = FALSE

InitPercentiles ==
  /\ PoolInit /\ QueueInit(2) /\ EngineInit(1, 2) /\ MemoryInit(1)
  /\ \E n \in VectorLens : \E a \in Arrangements : RecordedState(Vector(n, a))

NextPercentiles ==
  \E r \in SingleRecorder :
    \/ get_aggregated_call(r) \/ get_aggregated_errors(r) \/ get_aggregated_mean(r)
    \/ get_aggregated_min(r) \/ get_aggregated_max(r) \/ get_aggregated_return(r)

SpecPercentiles == InitPercentiles /\ [][NextPercentiles]_vars

\* two threads calling record_operation (the calls are bounded)
race_record_call(r) == record_call(r) /\ Len(recorded') <= MaxRaceRecords

NextConcurrentRecord ==
  \E r \in Recorders :
    \/ race_record_call(r) \/ record_count(r) \/ record_error(r) \/ record_sum(r)
    \/ record_min_load(r) \/ record_min_cas(r) \/ record_max_load(r) \/ record_max_cas(r)
    \/ push_back_read(r) \/ push_back_write(r) \/ push_back_race(r)

SpecConcurrentRecord == InitPool /\ [][NextConcurrentRecord]_vars

\* a pool of any size up to MaxBlocks, no call made yet
InitMemoryPool ==
  /\ \E n \in 0 .. MaxBlocks : MemoryInit(n)
  /\ PoolInit /\ MetricsInit /\ QueueInit(2) /\ EngineInit(1, 2)

\* one thread calling allocate and deallocate
NextMemoryPool ==
  \E t \in SingleAllocator :
    \/ allocate_call(t) \/ allocate_has_free(t) \/ allocate_scan(t) \/ allocate_mark(t)
    \/ allocate_sub(t) \/ allocate_count(t)
    \/ deallocate_call(t) \/ deallocate_find(t) \/ deallocate_clear(t)
    \/ deallocate_add(t) \/ deallocate_count(t)

SpecMemoryPool == InitMemoryPool /\ [][NextMemoryPool]_vars

\* two threads calling allocate and deallocate
NextConcurrentPool ==
  \E t \in Allocators :
    \/ allocate_call(t) \/ allocate_has_free(t) \/ allocate_scan(t) \/ allocate_mark(t)
    \/ allocate_sub(t) \/ allocate_count(t)
    \/ deallocate_call(t) \/ deallocate_find(t) \/ deallocate_clear(t)
    \/ deallocate_add(t) \/ deallocate_count(t)

SpecConcurrentPool == InitMemoryPool /\ [][NextConcurrentPool]_vars

\* one thread calling allocate and deallocate, deallocate with any pointer
NextDeallocateAny ==
  \E t \in SingleAllocator :
    \/ allocate_call(t) \/ allocate_has_free(t) \/ allocate_scan(t) \/ allocate_mark(t)
    \/ allocate_sub(t) \/ allocate_count(t)
    \/ deallocate_call(t) \/ deallocate_call_any(t) \/ deallocate_find(t)
    \/ deallocate_clear(t) \/ deallocate_add(t) \/ deallocate_count(t)

SpecDeallocateAny == InitMemoryPool /\ [][NextDeallocateAny]_vars

\* one thread calling record_operation while another calls get_aggregated
OtherRecorder == Recorders \ SingleRecorder

NextConcurrentSnapshot ==
  \/ \E r \in SingleRecorder :
        \/ record_call(r) \/ record_count(r) \/ record_error(r) \/ record_sum(r)
        \/ record_min_load(r) \/ record_min_cas(r) \/ record_max_load(r) \/ record_max_cas(r)
        \/ push_back_read(r) \/ push_back_write(r)
  \/ \E r \in OtherRecorder :
        \/ get_aggregated_call(r) \/ get_aggregated_errors(r) \/ get_aggregated_mean(r)
        \/ get_aggregated_min(r) \/ get_aggregated_max(r) \/ get_aggregated_return(r)
        \/ copy_race(r)

SpecConcurrentSnapshot == InitPool /\ [][NextConcurrentSnapshot]_vars

(***************************************************************************)
(* Properties of the queue.                                                *)
(***************************************************************************)
Range(s) == {s[i] : i \in 1 .. Len(s)}
SeqBag(s) == [v \in Range(s) |-> Cardinality({i \in 1 .. Len(s) : s[i] = v})]
NoDuplicates(s) == \A i, j \in 1 .. Len(s) : i # j => s[i] # s[j]
Quiescent == \A p \in Procs : qpc[p] = "idle"
IsPowerOfTwo(n) == n >= 1 /\ BitAnd(n, n - 1) = 0

\* C1: with one producer and one consumer, every value whose enqueue returned
\* true is returned by exactly one successful dequeue: no value is delivered
\* twice, nothing is delivered that was not enqueued, and when no call is in
\* progress and the queue is empty the multiset of dequeued values equals the
\* multiset of successfully enqueued values.
C1_ExactlyOnce ==
  /\ NoDuplicates(dequeued)
  /\ Range(dequeued) \subseteq Range(enqueued)
  /\ (Quiescent /\ head_ = tail_) => SeqBag(dequeued) = SeqBag(enqueued)

\* a drained queue after three values went through it, an enqueue having failed
C1_Witness ==
  /\ Quiescent /\ head_ = tail_
  /\ Len(dequeued) = 3 /\ calls = 4

\* C2: with one producer and one consumer the values are dequeued in exactly
\* the order in which their enqueues succeeded, also across the wrap-around of
\* the buffer: the dequeued sequence is always a prefix of the enqueued one.
C2_Fifo ==
  /\ Len(dequeued) <= Len(enqueued)
  /\ dequeued = SubSeq(enqueued, 1, Len(dequeued))

\* every slot of a two-slot ring has been reused: the cursors wrapped around
C2_Witness == capacity_ = 2 /\ Len(dequeued) = 4

\* C3: with two threads calling dequeue, no enqueued value is returned by
\* more than one dequeue call.
C3_NoDoubleDelivery == NoDuplicates(dequeued)

\* C4: with two threads calling enqueue, every enqueue that returned true
\* wrote a slot no other successful enqueue wrote: before any dequeue has read
\* a slot, every successfully enqueued value is still in the buffer, and when
\* the queue has been drained every one of them has been dequeued.
C4_NoLostEnqueue ==
  /\ (dequeued = <<>> /\ \A c \in Consumers : qpc[c] \in {"idle", "d_chk"})
        => Range(enqueued) \subseteq {buffer_[i] : i \in DOMAIN buffer_}
  /\ (Quiescent /\ head_ = tail_) => Range(enqueued) \subseteq Range(dequeued)

\* C5: an enqueue that finds the queue full returns false in that one step and
\* leaves head, tail and every slot unchanged; an enqueue begun after a dequeue
\* returned true (and no other enqueue since) does not fail.
C5_FullRejects ==
  [][\A p \in SPSCProducers :
       /\ (qpc[p] = "e_chk" /\ qpc'[p] # "e_chk" /\ qloc[p].next_tail = head_)
            => /\ qpc'[p] = "idle" /\ qloc'[p].ret = FALSE
               /\ UNCHANGED <<head_, tail_, buffer_, capacity_, mask_, cleared>>
       /\ (qpc[p] # "idle" /\ qpc'[p] = "idle" /\ armed[p]) => qloc'[p].ret = TRUE
    ]_vars

\* an enqueue failed on the full queue, a dequeue succeeded, the next enqueue
\* returned true
C5_Witness ==
  \E p \in SPSCProducers :
    /\ qpc[p] = "idle" /\ armed[p] /\ qloc[p].ret = TRUE
    /\ calls = 3 /\ enqueued = <<1, 3>> /\ dequeued = <<1>>

\* C6: a queue of capacity C (a power of two, at least 2) holds C items: the
\* number of stored items never exceeds C, and starting from empty with no
\* dequeue the first C enqueues all succeed.
C6_HoldsCapacity ==
  (IsPowerOfTwo(capacity_) /\ capacity_ >= 2) =>
    /\ Len(enqueued) - Len(dequeued) <= capacity_
    /\ (dequeued = <<>> /\ Quiescent /\ calls <= capacity_) => Len(enqueued) = calls

(***************************************************************************)
(* Properties of the engine.                                               *)
(***************************************************************************)
\* C7: no engine exists whose queue_capacity is not a power of two (at least
\* 2) or whose thread count is zero: the constructor rejects such a
\* configuration.
ValidConfig ==
  /\ IsPowerOfTwo(config_.queue_capacity) /\ config_.queue_capacity >= 2
  /\ config_.num_threads >= 1

C7_ConfigValidated == ValidConfig

\* the transitions of the state: Stopped -> Running by start(), Running -> Paused
\* by pause(), Paused -> Running by resume(), Running | Paused -> Stopped by stop()
LegalTransition(t) ==
  \/ state_ = "STOPPED" /\ state_' = "RUNNING" /\ cpc[t] = "start_set"
  \/ state_ = "RUNNING" /\ state_' = "PAUSED" /\ cpc[t] = "pause"
  \/ state_ = "PAUSED" /\ state_' = "RUNNING" /\ cpc[t] = "resume_set"
  \/ state_ \in {"RUNNING", "PAUSED"} /\ state_' = "STOPPED"
       /\ cpc[t] \in {"stop", "stop_cas_paused"}

\* C8: over every sequence of start / stop / pause / resume calls (on an
\* engine of a valid configuration) the state changes only along the four
\* transitions; every other call leaves it as it was.
C8_OnlyLegalTransitions ==
  [][(ValidConfig /\ state_' # state_) => \E t \in SingleController : LegalTransition(t)]_vars

\* the control thread has got past the test of start(), in this call or in one
\* that has returned
PerformedStart(t) == cloc[t].passed

\* C9: when two control threads call start() on a Stopped engine (of a valid
\* configuration), exactly one of them makes the transition and spawns the
\* workers: once the calls have returned, exactly num_threads worker threads
\* exist.
C9_SingleStart ==
  ( /\ ValidConfig /\ ~crashed
    /\ \A t \in Controllers : cpc[t] = "idle"
    /\ \E t \in Controllers : cloc[t].last = "start" )
  => /\ Cardinality({t \in Controllers : PerformedStart(t)}) = 1
     /\ Len(worker_threads_) = config_.num_threads

\* C10: a start() that finds the engine Running returns at once and changes
\* nothing: the state stays Running, no worker thread is added and
\* active_threads keeps its value.
C10_StartIdempotent ==
  [][\A t \in SingleController :
       (cpc[t] = "start" /\ state_ = "RUNNING" /\ cpc'[t] # "start")
         => /\ cpc'[t] = "idle"
            /\ state_' = "RUNNING"
            /\ UNCHANGED <<worker_threads_, active_threads, config_>>
    ]_vars

\* start() has returned at its test on a Running engine with its two workers
C10_Witness ==
  \E t \in SingleController :
    /\ cpc[t] = "idle" /\ cloc[t].last = "start" /\ cloc[t].early
    /\ state_ = "RUNNING"
    /\ Len(worker_threads_) = 2 /\ active_threads = 2

\* the control thread is outside any call and its last call was stop()
StopReturned(t) == cpc[t] = "idle" /\ cloc[t].last = "stop"

\* C11: a stop() called by the one control thread on a Running or Paused
\* engine returns; whenever stop() has returned (and no later call has begun)
\* the state is Stopped, no worker thread is left (the list is empty, nothing
\* ended the process), active_threads is 0, and the processed-item count does
\* not change.
C11_StopReturns ==
  /\ \A t \in SingleController :
        (cpc[t] = "stop" /\ state_ \in {"RUNNING", "PAUSED"}) ~> StopReturned(t)
  /\ [](\A t \in SingleController :
          StopReturned(t) => /\ state_ = "STOPPED" /\ ~crashed
                             /\ worker_threads_ = <<>> /\ active_threads = 0)
  /\ [][\A t \in SingleController :
          StopReturned(t) => processed_items' = processed_items]_vars

\* stop() has returned on an engine that was paused with two workers, which
\* had processed items
C11_Witness ==
  \E t \in SingleController :
    /\ StopReturned(t) /\ state_ = "STOPPED"
    /\ config_.num_threads = 2 /\ processed_items = 2 /\ cloc[t].limit >= 1

\* C12: set_config() replaces the configuration (of an engine that has been
\* started) only when the engine is Stopped: in the state Running or Paused
\* the configuration is left as it was.
C12_ConfigOnlyWhenStopped ==
  [][(active_threads >= 1 /\ state_ # "STOPPED") => config_' = config_]_vars

\* C14: while the state is Paused the processed-item count goes no further
\* than the iterations in progress when pause() took effect lead it to: no
\* worker begins an iteration.
C14_PausedHoldsCount ==
  state_ = "PAUSED" => \A t \in SingleController : processed_items <= cloc[t].limit

\* a paused engine whose two workers are waiting, the one iteration that was in
\* progress at the pause() having been counted
C14_Witness ==
  \E t \in SingleController :
    /\ state_ = "PAUSED" /\ cpc[t] = "idle" /\ cloc[t].last = "pause"
    /\ Len(worker_threads_) = 2
    /\ \A w \in DOMAIN worker_threads_ : worker_threads_[w].pc \in {"loop", "chk"}
    /\ \E w \in DOMAIN worker_threads_ : worker_threads_[w].pc = "loop"
    /\ processed_items = cloc[t].limit /\ cloc[t].base = 0 /\ cloc[t].limit = 1

\* C16: once stop() has taken effect, only the iterations then in progress are
\* completed (in the state Running those of the workers past the while-test;
\* in the state Paused, where a worker before its test for PAUSED is
\* suspended, those past that test): the processed-item count goes no further,
\* and has reached exactly that value when stop() returns.
C16_OnlyInFlightComplete ==
  \A t \in SingleController :
    /\ state_ = "STOPPED" => processed_items <= cloc[t].limit
    /\ StopReturned(t) => processed_items = cloc[t].limit

(***************************************************************************)
(* Properties of the thread pool.                                          *)
(***************************************************************************)
\* the number of submitted tasks whose future holds outcome
Count(outcome) == Cardinality({i \in 1 .. Len(futures) : futures[i] = outcome})

\* C17: a task whose function throws does not end the submissions: the
\* exception is caught in the task, every task submitted is run, a task that
\* threw is counted in failed_tasks and not in completed_tasks.
C17_ThrowingTaskCounted ==
  (\A t \in SingleSubmitter : ppc[t] = "idle") =>
    /\ Len(futures) = stats_.total_tasks
    /\ stats_.failed_tasks = Count("exception")
    /\ stats_.completed_tasks = Count("value")

(***************************************************************************)
(* Properties of the metrics collector.                                    *)
(***************************************************************************)
\* the latencies of the record_operation calls made, in order
Latencies == [i \in 1 .. Len(recorded) |-> recorded[i].latency_us]
Failures == {i \in 1 .. Len(recorded) : ~recorded[i].success}
Smallest(q) == CHOOSE x \in Range(q) : \A y \in Range(q) : x <= y
Largest(q) == CHOOSE x \in Range(q) : \A y \in Range(q) : x >= y
\* no thread is inside a call of the collector
Settled == ~aborted /\ \A r \in Recorders : mpc[r] = "idle"

\* C18: after N >= 1 calls record(x_i, true) by one thread on a fresh
\* collector, the snapshot get_aggregated returns has total_operations = N,
\* total_errors = 0, min = the smallest x_i, max = the largest x_i and
\* mean = (sum of the x_i) / N.
C18_SequentialSnapshot ==
  (snapshot.taken /\ recorded # <<>> /\ Failures = {}) =>
    /\ snapshot.total_operations = Len(recorded)
    /\ snapshot.total_errors = 0
    /\ RatioEq(snapshot.latency_us.mean, Ratio(SumSeq(Latencies), Len(recorded)))
    /\ "min" \in DOMAIN snapshot.latency_us
    /\ "max" \in DOMAIN snapshot.latency_us
    /\ snapshot.latency_us.min = Smallest(Latencies)
    /\ snapshot.latency_us.max = Largest(Latencies)

\* C19: when the record_operation calls of two threads have all returned,
\* total_operations_ is the number of calls, total_errors_ the number of calls
\* with success == false, latency_sum_us_ the sum of the latencies, and
\* min_latency_us_ / max_latency_us_ the smallest / largest latency recorded.
C19_CountersExact ==
  Settled =>
    /\ total_operations_ = Len(recorded)
    /\ total_errors_ = Cardinality(Failures)
    /\ latency_sum_us_ = SumSeq(Latencies)
    /\ recorded # <<>> => /\ min_latency_us_ = Smallest(Latencies)
                          /\ max_latency_us_ = Largest(Latencies)

\* two calls with different latencies, one of them failed, have returned after
\* running at the same time (they were inside push_back together)
C19_Witness ==
  /\ Settled /\ Len(recorded) = 2
  /\ recorded[1].latency_us = 2 /\ recorded[2].latency_us = 1
  /\ Cardinality(Failures) = 1
  /\ latency_samples_.size = 1

\* C20: when the record_operation calls of two threads have all returned,
\* the sample vector holds exactly one sample per call: the recorded
\* latencies, none lost, duplicated or replaced.
C20_SamplesExact == Settled => SeqBag(Samples) = SeqBag(Latencies)

Min2(a, b) == IF a < b THEN a ELSE b
\* samples[j], counting from 0, of the samples in ascending order
SortedAt(j) == SortAscending(Samples)[j + 1]
AscendingTo(n) == [i \in 1 .. n |-> i]

\* C21: for a collector holding N >= 1 samples, the p50, p95 and p99 of a
\* snapshot are the samples, in ascending order, at the index
\* min(floor(N * k), N - 1) counted from 0, for k = 0.50, 0.95 and 0.99 (an
\* index inside the vector); for the samples 1 .. 100 the p50 is 51.
C21_PercentileIndex ==
  (snapshot.taken /\ Settled /\ latency_samples_.size >= 1) =>
    LET N == latency_samples_.size IN
      /\ snapshot.latency_us.p50 = SortedAt(Min2((N * 50) \div 100, N - 1))
      /\ snapshot.latency_us.p95 = SortedAt(Min2((N * 95) \div 100, N - 1))
      /\ snapshot.latency_us.p99 = SortedAt(Min2((N * 99) \div 100, N - 1))
      /\ (N = 100 /\ SortAscending(Samples) = AscendingTo(100)) =>
            snapshot.latency_us.p50 = 51

\* a snapshot of the samples 100, 99, ..., 1
C21_Witness ==
  /\ snapshot.taken /\ Settled
  /\ latency_samples_.size = 100
  /\ Samples[1] = 100
  /\ snapshot.latency_us.p50 = 51
  /\ snapshot.latency_us.p95 = 96
  /\ snapshot.latency_us.p99 = 100

\* C22: for a collector holding N >= 1 samples, the p999 of a snapshot is the
\* sample, in ascending order, at the index min(floor(N * 0.999), N - 1)
\* counted from 0.
C22_P999Index ==
  (snapshot.taken /\ Settled /\ latency_samples_.size >= 1) =>
    LET N == latency_samples_.size IN
      snapshot.latency_us.p999 = SortedAt(Min2((N * 999) \div 1000, N - 1))

\* the samples a buffer of SampleCapacity slots holds after the recorded calls
SampleCapacity == 2
LastOf(q, k) == IF Len(q) <= k THEN q ELSE SubSeq(q, Len(q) - k + 1, Len(q))

\* C23: however many record calls one thread makes, the collector retains at
\* most SampleCapacity samples, and when no call is in progress they are the
\* latencies of the last SampleCapacity calls (a new sample overwrites the
\* oldest).
C23_BoundedSamples ==
  /\ latency_samples_.size <= SampleCapacity
  /\ Settled => Samples = LastOf(Latencies, SampleCapacity)

\* the snapshot of a new collector after the calls, read at the uptime
FreshSnapshot(ops, uptime) ==
  LET n == Len(ops)
      fails == Cardinality({i \in 1 .. n : ~ops[i].success})
  IN [taken |-> TRUE,
      latency_us |-> Percentiles([i \in 1 .. n |-> ops[i].latency_us]),
      throughput_ops_sec |-> IF uptime > 0 THEN Ratio(n, uptime)
                             ELSE DefaultAggregated.throughput_ops_sec,
      total_operations |-> n,
      total_errors |-> fails,
      error_rate |-> IF n > 0 THEN Ratio(fails, n) ELSE Ratio(0, 1),
      uptime_seconds |-> uptime]

C25_Throughput ==
  snapshot.taken =>
    IF snapshot.uptime_seconds > 0
    THEN RatioEq(snapshot.throughput_ops_sec,
                 Ratio(snapshot.total_operations, snapshot.uptime_seconds))
    ELSE RatioEq(snapshot.throughput_ops_sec, Ratio(0, 1))

\* a snapshot of two recorded calls read at an uptime of zero seconds
C25_Witness ==
  /\ snapshot.taken
  /\ snapshot.uptime_seconds = 0
  /\ snapshot.total_operations = 2
  /\ snapshot.throughput_ops_sec = Ratio(0, 1)

\* no allocate or deallocate call is in progress
PoolQuiescent == \A t \in Allocators : apc[t] = "idle"
HeldBy(b) == {t \in Allocators : held[t][b] > 0}
InUse == {b \in DOMAIN blocks_ : blocks_[b].allocated}

\* C26: with two threads calling allocate and deallocate, a block that
\* allocate returned and that was not deallocated since is held by one thread
\* only, and once only.
C26_OneOwner ==
  \A b \in BlockIds :
    /\ Cardinality(HeldBy(b)) <= 1
    /\ \A t \in Allocators : held[t][b] <= 1

\* C27: with one thread, allocate returns nullptr exactly when every block was
\* in use at the call, and otherwise a block of the pool, which its caller
\* then holds; the pool always has the num_blocks blocks it was constructed
\* with; a deallocate of a held block leaves that block free (so the next
\* allocate returns a block).
C27_NullWhenExhausted ==
  /\ DOMAIN blocks_ = 0 .. num_blocks - 1
  /\ \A t \in SingleAllocator :
       /\ (apc[t] = "idle" /\ aloc[t].last = "allocate") =>
            /\ (aloc[t].ret = nullptr) <=> aloc[t].full
            /\ aloc[t].ret # nullptr =>
                  (aloc[t].ret \in DOMAIN blocks_ /\ held[t][aloc[t].ret] = 1)
       /\ (apc[t] = "idle" /\ aloc[t].last = "deallocate") =>
            /\ ~blocks_[aloc[t].ptr].allocated
            /\ U32Positive(free_count_)

\* an allocate that returned a block after an allocate on the full pool
\* returned nullptr and a block was deallocated
C27_Witness ==
  /\ num_blocks = 2
  /\ \E t \in SingleAllocator :
       /\ apc[t] = "idle" /\ aloc[t].last = "allocate" /\ aloc[t].ret # nullptr
  /\ allocates = 4
  /\ total_allocations_ = 3
  /\ total_deallocations_ = 1
  /\ InUse = DOMAIN blocks_

\* C28: when no allocate or deallocate call is in progress, the free_blocks
\* of get_stats() is the number of blocks not marked in use, allocated_blocks
\* + free_blocks is total_blocks, and 0 <= free_blocks <= total_blocks as
\* uint32_t values.
C28_FreeCountExact ==
  PoolQuiescent =>
    /\ get_stats.free_blocks = Cardinality(DOMAIN blocks_ \ InUse)
    /\ get_stats.allocated_blocks + get_stats.free_blocks = get_stats.total_blocks
    /\ ~U32Less(get_stats.total_blocks, get_stats.free_blocks)

\* C29: with one producer and one consumer, when no enqueue or dequeue is in
\* progress size() is the number of enqueues that returned true less the
\* number of dequeues that returned true, also after the cursors wrapped.
C29_SizeIsStored ==
  Quiescent => LockFreeQueue_size = Len(enqueued) - Len(dequeued)

\* C30: a dequeue that finds the queue empty returns false in that step, and
\* no step of the call changes head_, tail_, a slot or the caller's value.
C30_EmptyDequeue ==
  [][\A c \in SPSCConsumers :
       /\ (qpc[c] = "d_chk" /\ qpc'[c] # "d_chk" /\ qloc[c].head = tail_)
            => /\ qpc'[c] = "idle" /\ qloc'[c].ret = FALSE
               /\ qloc'[c].value = qloc[c].value
               /\ UNCHANGED <<head_, tail_, buffer_>>
       /\ (qpc[c] = "idle" /\ qpc'[c] = "d_chk")
            => /\ qloc'[c].value = qloc[c].value
               /\ UNCHANGED <<head_, tail_, buffer_>>
    ]_vars

\* a dequeue returned a value, the next dequeue found the queue empty and
\* returned false; the caller's value is still the one dequeued
C30_Witness ==
  \E c \in SPSCConsumers :
    /\ qpc[c] = "idle" /\ qloc[c].ret = FALSE
    /\ dequeued # <<>>
    /\ qloc[c].value = dequeued[Len(dequeued)]
    /\ head_ = tail_

\* C31: with one producer and one consumer, the value a dequeue copies out of
\* a slot is the oldest value whose enqueue has stored the new tail and that
\* was not yet dequeued (the slot was written before the tail was stored), and
\* the slot an enqueue writes holds no value that is still to be copied out:
\* it was never written, or its value was dequeued, or the consumer has
\* copied it and is about to store the new head.
C31_WriteBeforePublish ==
  [][/\ \A c \in SPSCConsumers :
          (qpc[c] = "d_read" /\ qpc'[c] = "d_pub") =>
            /\ Len(dequeued) < Len(enqueued)
            /\ qloc'[c].value = enqueued[Len(dequeued) + 1]
     /\ \A p \in SPSCProducers :
          (qpc[p] = "e_write" /\ qpc'[p] = "e_pub") =>
            \/ buffer_[qloc[p].tail] = 0
            \/ buffer_[qloc[p].tail] \in Range(dequeued)
            \/ \E c \in SPSCConsumers :
                  qpc[c] = "d_pub" /\ qloc[c].value = buffer_[qloc[p].tail]
    ]_vars

\* on a queue of capacity 2 the third value went through slot 0 again and
\* the consumer has copied it out
C31_Witness ==
  /\ capacity_ = 2
  /\ dequeued = <<1, 2>>
  /\ \E c \in SPSCConsumers : qpc[c] = "d_pub" /\ qloc[c].value = 3 /\ qloc[c].head = 0

\* C32: a stop() called by one control thread while another control thread
\* calls pause() or resume() returns (unless the process has ended).  Only
\* behaviours in which the workers stay below the MaxProcessed iterations of
\* the model are judged: there no worker ever waits for the model.
C32_ConcurrentStopReturns ==
  \A t \in SingleController :
    (cpc[t] = "stop") ~> (StopReturned(t) \/ crashed \/ processed_items >= MaxProcessed)

\* the worker threads that have not left worker_loop
Alive == {w \in DOMAIN worker_threads_ : worker_threads_[w].pc # "done"}

\* C33: with one control thread, whenever no call is in progress: in the
\* state Running or Paused num_threads worker threads are alive and
\* active_threads is num_threads; in the state Stopped no worker thread is
\* alive and active_threads is 0.
C33_StateAgreesWithWorkers ==
  (~crashed /\ \A t \in SingleController : cpc[t] = "idle") =>
    /\ state_ \in {"RUNNING", "PAUSED"} =>
          /\ Cardinality(Alive) = config_.num_threads
          /\ active_threads = config_.num_threads
    /\ state_ = "STOPPED" =>
          /\ Alive = {}
          /\ active_threads = 0

\* C34: when the destructor of the engine, called by the one control thread in
\* any state, destroys the members, every worker thread that was spawned has
\* left worker_loop and has been joined; the destruction completes and the
\* process is not ended.
C34_DestructorJoins ==
  \A t \in SingleController :
    /\ cpc[t] = "destroy_members" =>
          /\ ~crashed
          /\ \A k \in DOMAIN worker_threads_ :
                worker_threads_[k].joined /\ worker_threads_[k].pc = "done"
    /\ cpc[t] = "destroyed" => (~crashed /\ worker_threads_ = <<>>)

\* C35: every snapshot get_aggregated returns, also while another thread is
\* inside record_operation, has total_errors <= total_operations and an
\* error_rate between 0 and 1.
C35_ErrorsWithinOperations ==
  snapshot.taken =>
    /\ snapshot.total_errors <= snapshot.total_operations
    /\ snapshot.error_rate.den > 0
    /\ 0 <= snapshot.error_rate.num
    /\ snapshot.error_rate.num <= snapshot.error_rate.den

\* C36: on a queue of any capacity C >= 2, every cursor and every slot index
\* in use is in 0 .. C - 1, and while nothing has been dequeued an enqueue
\* returns false only after at least C - 1 enqueues have returned true.
C36_AnyCapacityHolds ==
  capacity_ >= 2 =>
    /\ head_ \in 0 .. capacity_ - 1 /\ tail_ \in 0 .. capacity_ - 1
    /\ \A p \in SPSCProducers :
         /\ qpc[p] \in {"e_write", "e_pub"} => qloc[p].tail \in 0 .. capacity_ - 1
         /\ (qpc[p] = "idle" /\ dequeued = <<>> /\ calls > Len(enqueued)) =>
               Len(enqueued) >= capacity_ - 1

\* C37: no step of a deallocate called with a pointer that is no block of the
\* pool, or with a block that is free, changes the block flags, free_count_
\* or total_deallocations_, and such a call ends after the scan.
C37_InvalidDeallocateNoOp ==
  [][\A t \in SingleAllocator :
       (aloc[t].last = "deallocate_any" /\ apc[t] # "idle") =>
          /\ UNCHANGED <<blocks_, free_count_, total_deallocations_>>
          /\ apc'[t] \in {"find", "idle"}]_vars

\* a block that was allocated and freed is freed a second time, and the call returned
C37_Witness ==
  \E t \in SingleAllocator :
    /\ apc[t] = "idle" /\ aloc[t].last = "deallocate_any"
    /\ aloc[t].ptr \in DOMAIN blocks_
    /\ total_deallocations_ >= 1
    /\ BlocksSize = MaxBlocks /\ free_count_ = MaxBlocks - 1

\* C38: once clear() has returned and no enqueue or dequeue is in progress,
\* every value dequeued from then on was enqueued after clear() was called.
C38_OnlyValuesAfterClear ==
  cleared.pc = "settled" =>
    \A i \in cleared.deq + 1 .. Len(dequeued) :
      \E j \in cleared.enq + 1 .. Len(enqueued) : dequeued[i] = enqueued[j]

\* C39: a wait_all() that is in progress returns: completed_tasks reaches
\* total_tasks once the submitted tasks have run.
C39_WaitAllReturns ==
  \A t \in PoolMain : (ppc[t] = "wait_test") ~> (ppc[t] = "idle")

\* worker threads that have not left worker_loop
LiveWorkers == {k \in DOMAIN workers_ : workers_[k].pc # "done"}

\* C40: while no start() or stop() is in progress, exactly num_threads_
\* workers are alive if is_running() and none is otherwise, and a finished
\* stop() leaves no thread behind.
C40_WorkersMatchRunning ==
  (\A t \in PoolMain : ppc[t] = "idle") =>
    /\ ThreadPool_is_running => Cardinality(LiveWorkers) = num_threads_
    /\ ~ThreadPool_is_running => LiveWorkers = {} /\ workers_ = <<>>

====
